---- MODULE Spec2Model ----
(***************************************************************************)
(* A model of the attitude estimator of src/main/flight/imu.c: the tick    *)
(* imuUpdateAttitude with the reference selection, the level-recovery      *)
(* envelope, the Kp gain scheduler, the Mahony update and the Euler        *)
(* extraction.                                                             *)
(*                                                                         *)
(* Arithmetic.  The C code computes in single-precision floats.  The model *)
(* computes exactly in the ring Q(sqrt 2): a number is a triple            *)
(* <<a, b, d>> standing for (a + b*sqrt(2)) / d, d > 0, in lowest terms.   *)
(* M_PIf is the rational 355/113.  Orientations are stored at the          *)
(* resolution of the 48 unit quaternions of the binary octahedral group    *)
(* (all rotations by multiples of 90 degrees about the body axes): the     *)
(* normalisation that ends a quaternion update returns the unit quaternion *)
(* of that lattice nearest to its argument, which is the exact quotient    *)
(* whenever the quotient lies on the lattice.                              *)
(***************************************************************************)
EXTENDS Integers, Sequences, FiniteSets, TLC

(***************************************************************************)
(* Numbers of Q(sqrt 2)                                                    *)
(***************************************************************************)
Abs(n) == IF n < 0 THEN -n ELSE n

RECURSIVE Gcd(_, _)
Gcd(m, n) == IF n = 0 THEN m ELSE Gcd(n, m % n)

\* (a + b*sqrt(2)) / d in lowest terms, d > 0
Num(a, b, d) ==
    IF d = 1 THEN <<a, b, 1>>
    ELSE LET s == IF d < 0 THEN -1 ELSE 1
             g == Gcd(Gcd(Abs(a), Abs(b)), Abs(d))
         IN  <<(s * a) \div g, (s * b) \div g, (s * d) \div g>>

Rat(n, d) == Num(n, 0, d)
Zero == <<0, 0, 1>>
One == <<1, 0, 1>>
Two == <<2, 0, 1>>
Half == <<1, 0, 2>>
SqrtHalf == <<0, 1, 2>>

\* the sum over the least common denominator
Add(x, y) ==
    IF x = Zero THEN y
    ELSE IF y = Zero THEN x
    ELSE LET g == Gcd(x[3], y[3])
             kx == y[3] \div g
             ky == x[3] \div g
         IN  Num(x[1] * kx + y[1] * ky, x[2] * kx + y[2] * ky, x[3] * kx)
Neg(x) == <<-x[1], -x[2], x[3]>>
Sub(x, y) == Add(x, Neg(y))
\* the product, with the common factors of numerators and opposite
\* denominators removed first
Mul(x, y) ==
    IF x = Zero \/ y = Zero THEN Zero
    ELSE IF x = One THEN y
    ELSE IF y = One THEN x
    ELSE LET gx == Gcd(Gcd(Abs(x[1]), Abs(x[2])), y[3])
             gy == Gcd(Gcd(Abs(y[1]), Abs(y[2])), x[3])
             a == x[1] \div gx
             b == x[2] \div gx
             c == y[1] \div gy
             e == y[2] \div gy
         IN  Num(a * c + 2 * b * e, a * e + b * c, (x[3] \div gy) * (y[3] \div gx))
Sq(x) == Mul(x, x)
\* 1 / x, x # 0: the conjugate a - b*sqrt(2) over the field norm a^2 - 2 b^2
Inv(x) == Num(x[1] * x[3], -(x[2] * x[3]), x[1] * x[1] - 2 * x[2] * x[2])
Div(x, y) == Mul(x, Inv(y))

\* the sign of a - b*sqrt(2) for integers a, b > 0, without squaring: for
\* b < a < 2b it is the opposite of the sign of (2b - a) - (a - b)*sqrt(2)
RECURSIVE SignRoot2(_, _)
SignRoot2(a, b) ==
    IF a >= 2 * b THEN 1
    ELSE IF a <= b THEN -1
    ELSE -SignRoot2(2 * b - a, a - b)

\* the sign of (a + b*sqrt(2)) / d
Sign(x) ==
    LET a == x[1]
        b == x[2]
    IN  IF a = 0 /\ b = 0 THEN 0
        ELSE IF a >= 0 /\ b >= 0 THEN 1
        ELSE IF a <= 0 /\ b <= 0 THEN -1
        ELSE IF a > 0 THEN SignRoot2(a, -b)
        ELSE -SignRoot2(-a, b)

\* the sign of x - y, from the numerators over the least common denominator
Cmp(x, y) ==
    IF x = y THEN 0
    ELSE LET g == Gcd(x[3], y[3])
             kx == y[3] \div g
             ky == x[3] \div g
         IN  Sign(<<x[1] * kx - y[1] * ky, x[2] * kx - y[2] * ky, 1>>)

Lt(x, y) == Cmp(x, y) < 0
Le(x, y) == Cmp(x, y) <= 0
Gt(x, y) == Lt(y, x)
Ge(x, y) == Le(y, x)
IsZero(x) == x[1] = 0 /\ x[2] = 0
FAbs(x) == IF Sign(x) < 0 THEN Neg(x) ELSE x

(***************************************************************************)
(* Constants of imu.c                                                      *)
(***************************************************************************)
SPIN_RATE_LIMIT == 20
ATTITUDE_RESET_QUIET_TIME == 250000
ATTITUDE_RESET_GYRO_LIMIT == 15
ATTITUDE_RESET_KP_GAIN == 25
ATTITUDE_RESET_ACTIVE_TIME == 500000
GPS_COG_MIN_GROUNDSPEED == 500
GPS_MIN_NUMSAT == 5

\* M_PIf, and DEGREES_TO_RADIANS(x) = x * M_PIf / 180
M_PIf == Rat(355, 113)
DEGREES_TO_RADIANS(x) == Div(Mul(x, M_PIf), Rat(180, 1))

(***************************************************************************)
(* Accelerometer health, imuIsAccelerometerHealthy                         *)
(***************************************************************************)
\* common/maths.c scaleRangef: the linear map taking [srcFrom, srcTo] to
\* [destFrom, destTo]
scaleRangef(x, srcFrom, srcTo, destFrom, destTo) ==
    Add(Div(Mul(Sub(destTo, destFrom), Sub(x, srcFrom)), Sub(srcTo, srcFrom)), destFrom)

\* accMagnitudeSq: |a|^2 * sq(acc.dev.acc_1G_rec)
AccMagnitudeSq(accAvg, acc_1G_rec) ==
    Mul(Add(Add(Sq(accAvg[1]), Sq(accAvg[2])), Sq(accAvg[3])), Sq(acc_1G_rec))

imuIsAccelerometerHealthy(accAvg, acc_1G_rec) ==
    LET accMagnitudeSq == AccMagnitudeSq(accAvg, acc_1G_rec)
    IN  IF Lt(Half, accMagnitudeSq) /\ Lt(accMagnitudeSq, Rat(169, 100))
        THEN IF Gt(accMagnitudeSq, One)
             THEN scaleRangef(accMagnitudeSq, Half, One, Zero, One)
             ELSE scaleRangef(accMagnitudeSq, One, Rat(169, 100), One, Zero)
        ELSE Zero

(***************************************************************************)
(* Gain scheduler, imuCalcKpGain.  sched is the record of the function's   *)
(* statics; the result holds the statics after the call, the returned gain *)
(* ret and the local attitudeResetActive.  Times are microseconds of the   *)
(* 32-bit clock; the model's clock stays below its wrap.                   *)
(***************************************************************************)
\* a variant that looks at the gyro only
GyroActivityGyroOnly(gyroAverage, useAcc) ==
    \/ Gt(FAbs(gyroAverage[1]), Rat(ATTITUDE_RESET_GYRO_LIMIT, 1))
    \/ Gt(FAbs(gyroAverage[2]), Rat(ATTITUDE_RESET_GYRO_LIMIT, 1))
    \/ Gt(FAbs(gyroAverage[3]), Rat(ATTITUDE_RESET_GYRO_LIMIT, 1))

GyroActivity(gyroAverage, useAcc) ==
    \/ Gt(FAbs(gyroAverage[1]), Rat(ATTITUDE_RESET_GYRO_LIMIT, 1))
    \/ Gt(FAbs(gyroAverage[2]), Rat(ATTITUDE_RESET_GYRO_LIMIT, 1))
    \/ Gt(FAbs(gyroAverage[3]), Rat(ATTITUDE_RESET_GYRO_LIMIT, 1))
    \/ IsZero(useAcc)

\* lines 682-686: just disarmed, start the gyro quiet period
KpJustDisarmed(sched, currentTimeUs) ==
    IF sched.lastArmState
    THEN [sched EXCEPT !.gyroQuietPeriodTimeEnd = currentTimeUs + ATTITUDE_RESET_QUIET_TIME,
                       !.attitudeResetTimeEnd = 0,
                       !.attitudeResetCompleted = FALSE]
    ELSE sched

\* a variant that restarts the quiet period and leaves the reset window open
KpRestartQuietKeepsWindow(sched, currentTimeUs, useAcc, gyroAverage) ==
    IF /\ \/ sched.attitudeResetTimeEnd > 0
          \/ sched.gyroQuietPeriodTimeEnd > 0
          \/ sched.attitudeResetCompleted
       /\ GyroActivity(gyroAverage, useAcc)
    THEN [sched EXCEPT !.gyroQuietPeriodTimeEnd = currentTimeUs + ATTITUDE_RESET_QUIET_TIME]
    ELSE sched

\* lines 691-700: gyro activity restarts the quiet period
KpRestartQuiet(sched, currentTimeUs, useAcc, gyroAverage) ==
    IF /\ \/ sched.attitudeResetTimeEnd > 0
          \/ sched.gyroQuietPeriodTimeEnd > 0
          \/ sched.attitudeResetCompleted
       /\ GyroActivity(gyroAverage, useAcc)
    THEN [sched EXCEPT !.gyroQuietPeriodTimeEnd = currentTimeUs + ATTITUDE_RESET_QUIET_TIME,
                       !.attitudeResetTimeEnd = 0]
    ELSE sched

\* a variant whose window is active from the tick that opens it
KpResetWindowActiveOnOpen(sched, currentTimeUs) ==
    IF sched.attitudeResetTimeEnd > 0
    THEN IF currentTimeUs >= sched.attitudeResetTimeEnd
         THEN [s |-> [sched EXCEPT !.gyroQuietPeriodTimeEnd = 0,
                                   !.attitudeResetTimeEnd = 0,
                                   !.attitudeResetCompleted = TRUE],
               attitudeResetActive |-> FALSE]
         ELSE [s |-> sched, attitudeResetActive |-> TRUE]
    ELSE IF sched.gyroQuietPeriodTimeEnd > 0 /\ currentTimeUs >= sched.gyroQuietPeriodTimeEnd
         THEN [s |-> [sched EXCEPT !.attitudeResetTimeEnd = currentTimeUs + ATTITUDE_RESET_ACTIVE_TIME,
                                   !.gyroQuietPeriodTimeEnd = 0],
               attitudeResetActive |-> TRUE]
         ELSE [s |-> sched, attitudeResetActive |-> FALSE]

\* lines 701-713: the reset window closes, stays open, or opens
KpResetWindow(sched, currentTimeUs) ==
    IF sched.attitudeResetTimeEnd > 0
    THEN IF currentTimeUs >= sched.attitudeResetTimeEnd
         THEN [s |-> [sched EXCEPT !.gyroQuietPeriodTimeEnd = 0,
                                   !.attitudeResetTimeEnd = 0,
                                   !.attitudeResetCompleted = TRUE],
               attitudeResetActive |-> FALSE]
         ELSE [s |-> sched, attitudeResetActive |-> TRUE]
    ELSE IF sched.gyroQuietPeriodTimeEnd > 0 /\ currentTimeUs >= sched.gyroQuietPeriodTimeEnd
         THEN [s |-> [sched EXCEPT !.attitudeResetTimeEnd = currentTimeUs + ATTITUDE_RESET_ACTIVE_TIME,
                                   !.gyroQuietPeriodTimeEnd = 0],
               attitudeResetActive |-> FALSE]
         ELSE [s |-> sched, attitudeResetActive |-> FALSE]

\* lines 726-728: the level-recovery gain; coef * strength / 1000 is an
\* integer quotient
LevelRecoveryKp(dcm_kp, level_recovery_coef, strength) ==
    Mul(dcm_kp, Add(One, Rat((level_recovery_coef * strength) \div 1000, 1)))

\* a variant that boosts the gain while armed instead of while disarmed
KpSelectBoostArmed(dcm_kp, level_recovery_coef, attitudeResetActive, armState, lrActive, lrStrength) ==
    LET base == IF attitudeResetActive
                THEN Rat(ATTITUDE_RESET_KP_GAIN, 1)
                ELSE IF armState THEN Mul(dcm_kp, Rat(10, 1)) ELSE dcm_kp
    IN  IF lrActive THEN LevelRecoveryKp(dcm_kp, level_recovery_coef, lrStrength) ELSE base

\* lines 717-728: the gain returned
KpSelect(dcm_kp, level_recovery_coef, attitudeResetActive, armState, lrActive, lrStrength) ==
    LET base == IF attitudeResetActive
                THEN Rat(ATTITUDE_RESET_KP_GAIN, 1)
                ELSE IF ~armState THEN Mul(dcm_kp, Rat(10, 1)) ELSE dcm_kp
    IN  IF lrActive THEN LevelRecoveryKp(dcm_kp, level_recovery_coef, lrStrength) ELSE base

imuCalcKpGain(sched, cfg, currentTimeUs, useAcc, gyroAverage, armState, lrActive, lrStrength) ==
    LET w == IF ~armState
             THEN KpResetWindow(
                      KpRestartQuiet(KpJustDisarmed(sched, currentTimeUs),
                                     currentTimeUs, useAcc, gyroAverage),
                      currentTimeUs)
             ELSE [s |-> sched, attitudeResetActive |-> FALSE]
    IN  [sched |-> [w.s EXCEPT !.lastArmState = armState],
         attitudeResetActive |-> w.attitudeResetActive,
         ret |-> KpSelect(cfg.dcm_kp, cfg.level_recovery_coef, w.attitudeResetActive,
                          armState, lrActive, lrStrength)]

(***************************************************************************)
(* Level recovery, imuHandleLevelRecovery.  lr is the record of            *)
(* previousCrashTime, levelRecoveryActive and levelRecoveryStrength.       *)
(***************************************************************************)
\* lines 737-741: a gyro axis beyond the threshold latches the crash time
CrashTime(previousCrashTime, currentTimeUs, gyroADCf, threshold) ==
    IF \E i \in 1..3 : Abs(gyroADCf[i]) > threshold
    THEN currentTimeUs
    ELSE previousCrashTime

\* a variant without the clamp of lines 750-751
LevelStrengthUnclamped(level_recovery_time, elapsedSinceCrash) ==
    2 * ((level_recovery_time * 1000 - elapsedSinceCrash) \div level_recovery_time)

\* lines 748-751: full for the first half of the window, then decaying
LevelStrength(level_recovery_time, elapsedSinceCrash) ==
    LET s == 2 * ((level_recovery_time * 1000 - elapsedSinceCrash) \div level_recovery_time)
    IN  IF s > 1000 THEN 1000 ELSE s

\* a variant that leaves the recovery in effect while disarmed
LevelDisarmedKeeps(lr, armState) == lr

\* lines 757-760: nothing is in effect while disarmed
LevelDisarmed(lr, armState) ==
    IF ~armState
    THEN [lr EXCEPT !.levelRecoveryActive = FALSE, !.levelRecoveryStrength = 0]
    ELSE lr

imuHandleLevelRecovery(lr, cfg, currentTimeUs, gyroADCf, armState) ==
    LET crash == CrashTime(lr.previousCrashTime, currentTimeUs, gyroADCf,
                           cfg.level_recovery_threshold)
        elapsedSinceCrash == currentTimeUs - crash
        inWindow == elapsedSinceCrash < cfg.level_recovery_time * 1000
    IN  LevelDisarmed(
            [previousCrashTime |-> crash,
             levelRecoveryActive |-> inWindow,
             levelRecoveryStrength |->
                 IF inWindow THEN LevelStrength(cfg.level_recovery_time, elapsedSinceCrash)
                 ELSE 0],
            armState)

(***************************************************************************)
(* Quaternion kernel.  A quaternion is <<w, x, y, z>>; a product cache     *)
(* (quaternionProducts) is a record of w, x, y, z and the ten products.    *)
(***************************************************************************)
QUATERNION_INITIALIZE == <<One, Zero, Zero, Zero>>

QUATERNION_PRODUCTS_INITIALIZE ==
    [w |-> One, x |-> Zero, y |-> Zero, z |-> Zero,
     ww |-> One, wx |-> Zero, wy |-> Zero, wz |-> Zero, xx |-> Zero,
     xy |-> Zero, xz |-> Zero, yy |-> Zero, yz |-> Zero, zz |-> Zero]

Dot4(p, r) ==
    Add(Add(Mul(p[1], r[1]), Mul(p[2], r[2])), Add(Mul(p[3], r[3]), Mul(p[4], r[4])))

NormSq(p) == Dot4(p, p)

\* the 48 unit quaternions of the binary octahedral group
LatticeComponents ==
    {Zero, One, Neg(One), Half, Neg(Half), SqrtHalf, Neg(SqrtHalf)}

Lattice ==
    {<<p[1], p[2], p[3], p[4]>> :
        p \in {r \in LatticeComponents \X LatticeComponents \X LatticeComponents
                        \X LatticeComponents :
                   /\ NormSq(r) = One
                   /\ \A i, j \in 1..4 :
                          (r[i] # Zero /\ r[j] # Zero) => FAbs(r[i]) = FAbs(r[j])}}

\* the lattice quaternions of non-negative components
LatticeAbs == {<<FAbs(l[1]), FAbs(l[2]), FAbs(l[3]), FAbs(l[4])>> : l \in Lattice}

\* the lattice quaternions nearest to the direction of p (p # 0): those of
\* the largest inner product with p.  The lattice is closed under changes
\* of sign of the components, so these are the quaternions with the signs of
\* p whose absolute values have the largest inner product with those of p.
Nearest(p) ==
    IF p \in Lattice
    THEN {p}
    ELSE LET a == <<FAbs(p[1]), FAbs(p[2]), FAbs(p[3]), FAbs(p[4])>>
             scored == {<<l, Dot4(a, l)>> : l \in LatticeAbs}
             best == {t[1] : t \in {s \in scored : \A u \in scored : Ge(s[2], u[2])}}
         IN  {l \in Lattice :
                 /\ <<FAbs(l[1]), FAbs(l[2]), FAbs(l[3]), FAbs(l[4])>> \in best
                 /\ \A i \in 1..4 : Sign(l[i]) * Sign(p[i]) >= 0}

\* p * invSqrt(sq(p.w) + sq(p.x) + sq(p.y) + sq(p.z)) at the resolution of
\* the lattice, from the set near of the lattice quaternions nearest to p
Normalise(near) == CHOOSE l \in near : TRUE

\* imuQuaternionComputeProducts: the ten products; w, x, y, z of the cache
\* are not written
imuQuaternionComputeProducts(quat, quatProd) ==
    [quatProd EXCEPT
        !.ww = Mul(quat[1], quat[1]), !.wx = Mul(quat[1], quat[2]),
        !.wy = Mul(quat[1], quat[3]), !.wz = Mul(quat[1], quat[4]),
        !.xx = Mul(quat[2], quat[2]), !.xy = Mul(quat[2], quat[3]),
        !.xz = Mul(quat[2], quat[4]), !.yy = Mul(quat[3], quat[3]),
        !.yz = Mul(quat[3], quat[4]), !.zz = Mul(quat[4], quat[4])]

\* the matrix of lines 185-195 from a product cache
RotationMatrixOf(p) ==
    <<<<Sub(Sub(One, Mul(Two, p.yy)), Mul(Two, p.zz)),
        Mul(Two, Sub(p.xy, p.wz)),
        Mul(Two, Add(p.xz, p.wy))>>,
      <<Mul(Two, Add(p.xy, p.wz)),
        Sub(Sub(One, Mul(Two, p.xx)), Mul(Two, p.zz)),
        Mul(Two, Sub(p.yz, p.wx))>>,
      <<Mul(Two, Sub(p.xz, p.wy)),
        Mul(Two, Add(p.yz, p.wx)),
        Sub(Sub(One, Mul(Two, p.xx)), Mul(Two, p.yy))>>>>

\* imuComputeRotationMatrix: the cache qP is recomputed from the global q
\* first, then rMat from the cache
imuComputeRotationMatrix(quat, quatProd) ==
    LET p == imuQuaternionComputeProducts(quat, quatProd)
    IN  [q |-> quat, qP |-> p, rMat |-> RotationMatrixOf(p)]

(***************************************************************************)
(* Trigonometry of common/maths.c at the angles of the lattice (multiples  *)
(* of 45 degrees), and the square root at perfect squares.                 *)
(***************************************************************************)
\* cos_approx and sin_approx at k * 45 degrees
Cos45(k) ==
    CASE k % 8 = 0 -> One
      [] k % 8 \in {1, 7} -> SqrtHalf
      [] k % 8 \in {2, 6} -> Zero
      [] k % 8 \in {3, 5} -> Neg(SqrtHalf)
      [] k % 8 = 4 -> Neg(One)

Sin45(k) == Cos45(k - 2)

\* cos_approx(DECIDEGREES_TO_RADIANS(d) * 0.5f), d a multiple of 900
CosHalfDecideg(d) == CASE d % 900 = 0 -> Cos45(d \div 900)
SinHalfDecideg(d) == CASE d % 900 = 0 -> Sin45(d \div 900)

\* cos_approx and sin_approx of DECIDEGREES_TO_RADIANS(d), d a multiple of 450
CosDecideg(d) == CASE d % 450 = 0 -> Cos45(d \div 450)
SinDecideg(d) == CASE d % 450 = 0 -> Sin45(d \div 450)

\* lrintf(((0.5f * M_PIf) - acos_approx(x)) * (1800.0f / M_PIf))
HalfPiMinusAcosDecideg(x) ==
    CASE x = One -> 900
      [] x = Zero -> 0
      [] x = Neg(One) -> -900
      [] x = Rat(24, 25) -> 737
      [] x = Rat(-24, 25) -> -737
      [] x = Rat(7, 25) -> 163
      [] x = Rat(-7, 25) -> -163

\* lrintf(-atan2_approx(y, x) * (1800.0f / M_PIf))
MinusAtan2Decideg(y, x) ==
    CASE y = Zero /\ x = One -> 0
      [] y = One /\ x = Zero -> -900
      [] y = Neg(One) /\ x = Zero -> 900
      [] y = Zero /\ x = Neg(One) -> -1800
      [] y = Zero /\ x = Zero -> 0

ISqrt(n) == CHOOSE k \in 0..n : k * k = n

\* sqrtf and invSqrt of a rational whose numerator and denominator are squares
sqrtf(x) == CASE x[2] = 0 -> Rat(ISqrt(x[1]), ISqrt(x[3]))
invSqrt(x) == CASE x[2] = 0 -> Rat(ISqrt(x[3]), ISqrt(x[1]))

(***************************************************************************)
(* Euler angles, imuUpdateEulerAngles (lines 574-576, 619, 637-639)        *)
(***************************************************************************)
\* a variant that publishes the yaw as computed
YawAsComputed(yaw) == yaw

\* lines 637-639: a negative yaw is moved up by a full turn
YawNormalised(yaw) == IF yaw < 0 THEN yaw + 3600 ELSE yaw

EulerFromMatrix(R) ==
    [roll |-> HalfPiMinusAcosDecideg(R[3][2]),
     pitch |-> HalfPiMinusAcosDecideg(Neg(R[3][1])),
     yaw |-> YawNormalised(MinusAtan2Decideg(R[2][1], R[1][1]))]

(***************************************************************************)
(* GPS heading initialisation, imuComputeQuaternionFromRPY                 *)
(***************************************************************************)
WrapDecideg(a) == IF a > 1800 THEN a - 3600 ELSE a

\* lines 783-795: q0..q3 of the roll, pitch, yaw orientation
QuaternionFromRPY(initialRoll, initialPitch, initialYaw) ==
    LET r == WrapDecideg(initialRoll)
        p == WrapDecideg(initialPitch)
        y == WrapDecideg(initialYaw)
        cosRoll == CosHalfDecideg(r)
        sinRoll == SinHalfDecideg(r)
        cosPitch == CosHalfDecideg(p)
        sinPitch == SinHalfDecideg(p)
        cosYaw == CosHalfDecideg(-y)
        sinYaw == SinHalfDecideg(-y)
    IN  <<Add(Mul(Mul(cosRoll, cosPitch), cosYaw), Mul(Mul(sinRoll, sinPitch), sinYaw)),
          Sub(Mul(Mul(sinRoll, cosPitch), cosYaw), Mul(Mul(cosRoll, sinPitch), sinYaw)),
          Add(Mul(Mul(cosRoll, sinPitch), cosYaw), Mul(Mul(sinRoll, cosPitch), sinYaw)),
          Sub(Mul(Mul(cosRoll, cosPitch), sinYaw), Mul(Mul(sinRoll, sinPitch), cosYaw))>>

\* lines 797-807: nine products of q0..q3 go to the cache; ww and the global
\* q are not written
RPYProducts(quatProd, e) ==
    [quatProd EXCEPT
        !.xx = Sq(e[2]), !.yy = Sq(e[3]), !.zz = Sq(e[4]),
        !.xy = Mul(e[2], e[3]), !.xz = Mul(e[2], e[4]), !.yz = Mul(e[3], e[4]),
        !.wx = Mul(e[1], e[2]), !.wy = Mul(e[1], e[3]), !.wz = Mul(e[1], e[4])]

\* the whole function: the cache is written, then imuComputeRotationMatrix()
\* (line 809) recomputes the cache from the global q
imuComputeQuaternionFromRPY(quat, quatProd, initialRoll, initialPitch, initialYaw) ==
    imuComputeRotationMatrix(
        quat, RPYProducts(quatProd, QuaternionFromRPY(initialRoll, initialPitch, initialYaw)))

(***************************************************************************)
(* Mahony update, imuMahonyAHRSupdate                                      *)
(***************************************************************************)
VAdd(u, v) == <<Add(u[1], v[1]), Add(u[2], v[2]), Add(u[3], v[3])>>
VScale(u, k) == <<Mul(u[1], k), Mul(u[2], k), Mul(u[3], k)>>
VNormSq(u) == Add(Add(Sq(u[1]), Sq(u[2])), Sq(u[3]))
VZero == <<Zero, Zero, Zero>>

\* lines 413-427: the heading error from the course over ground, rotated to
\* the body frame; the course is held in decidegrees
CogError(R, useCOG, courseDecideg) ==
    IF useCOG
    THEN LET ez_ef == Sub(Neg(Mul(SinDecideg(courseDecideg), R[1][1])),
                          Mul(CosDecideg(courseDecideg), R[2][1]))
         IN  VScale(R[3], ez_ef)
    ELSE VZero

\* line 435: the magnetometer correction is applied
MagApplied(useMag, magADC) == useMag /\ Gt(VNormSq(magADC), Rat(1, 100))

\* lines 431-458: the heading error from the magnetometer
MagError(R, useMag, magADC) ==
    IF MagApplied(useMag, magADC)
    THEN LET m == VScale(magADC, invSqrt(VNormSq(magADC)))
             hx == Add(Add(Mul(R[1][1], m[1]), Mul(R[1][2], m[2])), Mul(R[1][3], m[3]))
             hy == Add(Add(Mul(R[2][1], m[1]), Mul(R[2][2], m[2])), Mul(R[2][3], m[3]))
             bx == sqrtf(Add(Sq(hx), Sq(hy)))
             ez_ef == Neg(Mul(hy, bx))
         IN  VScale(R[3], ez_ef)
    ELSE VZero

\* lines 464-476: the gravity error, scaled by the accelerometer strength
AccError(R, useAcc, accAvg) ==
    IF ~IsZero(useAcc) /\ Gt(VNormSq(accAvg), Rat(1, 100))
    THEN LET a == VScale(accAvg, invSqrt(VNormSq(accAvg)))
         IN  VScale(<<Sub(Mul(a[2], R[3][3]), Mul(a[3], R[3][2])),
                      Sub(Mul(a[3], R[3][1]), Mul(a[1], R[3][3])),
                      Sub(Mul(a[1], R[3][2]), Mul(a[2], R[3][1]))>>, useAcc)
    ELSE VZero

\* a variant that integrates at the limit itself
BelowSpinLimitInclusive(g) ==
    Le(VNormSq(g), Sq(DEGREES_TO_RADIANS(Rat(SPIN_RATE_LIMIT, 1))))

\* line 481: below the spin-rate limit (both sides are non-negative, so the
\* squares are compared)
BelowSpinLimit(g) ==
    Lt(VNormSq(g), Sq(DEGREES_TO_RADIANS(Rat(SPIN_RATE_LIMIT, 1))))

\* lines 479-491: the integral feedback
IntegralFeedback(integralFB, dcm_ki, g, e, dt, useAcc) ==
    IF Gt(dcm_ki, Zero)
    THEN IF BelowSpinLimit(g)
         THEN VAdd(integralFB, VScale(e, Mul(Mul(dcm_ki, dt), useAcc)))
         ELSE integralFB
    ELSE VZero

\* lines 504-512: q plus its rate of change over the tick
IntegrateRate(b, r) ==
    <<Add(b[1], Sub(Sub(Neg(Mul(b[2], r[1])), Mul(b[3], r[2])), Mul(b[4], r[3]))),
      Add(b[2], Sub(Add(Mul(b[1], r[1]), Mul(b[3], r[3])), Mul(b[4], r[2]))),
      Add(b[3], Add(Sub(Mul(b[1], r[2]), Mul(b[2], r[3])), Mul(b[4], r[1]))),
      Add(b[4], Sub(Add(Mul(b[1], r[3]), Mul(b[2], r[2])), Mul(b[3], r[1])))>>

\* the result holds the new q, qP, rMat and integralFB, the error vector e
\* of lines 413-476, and nearest: the lattice quaternions nearest to q before
\* its normalisation
imuMahonyAHRSupdate(quat, quatProd, R, integralFB, dcm_ki, dt, g, useAcc, accAvg, useMag, magADC, useCOG, courseDecideg, dcmKpGain) ==
    LET Recompute(e, fb, near) ==
            imuComputeRotationMatrix(Normalise(near), quatProd)
                @@ [integralFB |-> fb, nearest |-> near, e |-> e]
        Integrate(e, fb) ==
            Recompute(e, fb, Nearest(IntegrateRate(quat,
                VScale(VAdd(VAdd(g, VScale(e, Mul(dcmKpGain, useAcc))), fb),
                       Mul(Half, dt)))))
        Feedback(e) ==
            Integrate(e, IntegralFeedback(integralFB, dcm_ki, g, e, dt, useAcc))
    IN  Feedback(VAdd(VAdd(CogError(R, useCOG, courseDecideg), MagError(R, useMag, magADC)),
                      AccError(R, useAcc, accAvg)))

(***************************************************************************)
(* Quaternion products of the derived outputs (lines 216-354, 815-830)     *)
(***************************************************************************)
\* the w, x, y, z of a product cache
Quat(p) == <<p.w, p.x, p.y, p.z>>

\* lines 826-829 and 344-347: the product from the eight partial products
QuaternionOfParts(A, B, C, D, E, F, G, H) ==
    <<Add(B, Div(Add(Add(Sub(Neg(E), F), G), H), Two)),
      Sub(A, Div(Add(Add(Add(E, F), G), H), Two)),
      Add(C, Div(Sub(Add(Sub(E, F), G), H), Two)),
      Add(D, Div(Add(Sub(Sub(E, F), G), H), Two))>>

\* lines 817-824 and 326-333: the eight partial products of q1 * q2
QuaternionProduct(q1, q2) ==
    QuaternionOfParts(
        Mul(Add(q1[1], q1[2]), Add(q2[1], q2[2])),
        Mul(Sub(q1[4], q1[3]), Sub(q2[3], q2[4])),
        Mul(Sub(q1[1], q1[2]), Add(q2[3], q2[4])),
        Mul(Add(q1[3], q1[4]), Sub(q2[1], q2[2])),
        Mul(Add(q1[2], q1[4]), Add(q2[2], q2[3])),
        Mul(Sub(q1[2], q1[4]), Sub(q2[2], q2[3])),
        Mul(Add(q1[1], q1[3]), Sub(q2[1], q2[4])),
        Mul(Sub(q1[1], q1[3]), Add(q2[1], q2[4])))

\* imuQuaternionMultiplication: the product, not normalised
imuQuaternionMultiplication(q1, q2) == QuaternionProduct(q1, q2)

ScaleQuat(p, k) == <<Mul(p[1], k), Mul(p[2], k), Mul(p[3], k), Mul(p[4], k)>>

\* p * invSqrt(sq(p.w) + sq(p.x) + sq(p.y) + sq(p.z))
NormaliseQuat(p) == ScaleQuat(p, invSqrt(NormSq(p)))

\* imuQuaternionMultiplicationProd: q1 * q2 (order 1) or q2 * q1 of a
\* quaternion and a product cache, normalised
imuQuaternionMultiplicationProd(q1, q2, order) ==
    NormaliseQuat(IF order = 1 THEN QuaternionProduct(q1, Quat(q2))
                  ELSE QuaternionProduct(Quat(q2), q1))

\* lines 250-261 and 309-318: w, x, y, z and six of the products are written
OffsetProducts(quatProd, e) ==
    [quatProd EXCEPT
        !.x = e[2], !.y = e[3], !.z = e[4], !.w = e[1],
        !.xy = Mul(e[2], e[3]), !.xz = Mul(e[2], e[4]), !.yz = Mul(e[3], e[4]),
        !.wx = Mul(e[1], e[2]), !.wy = Mul(e[1], e[3]), !.wz = Mul(e[1], e[4])]

\* imuComputeMotorQuatOffset: lines 239-242 compute q0..q3 as lines 783-795
imuComputeMotorQuatOffset(quatProd, initialRoll, initialPitch, initialYaw) ==
    OffsetProducts(quatProd,
                   NormaliseQuat(QuaternionFromRPY(initialRoll, initialPitch, initialYaw)))

\* imuQuaternionComputeProductsProducts: the ten products of the cache's own
\* w, x, y, z
imuQuaternionComputeProductsProducts(quatProd) ==
    imuQuaternionComputeProducts(Quat(quatProd), quatProd)

\* imuComputeRemoveYaw: the cache times the rotation by -initialYaw about z,
\* normalised; w, x, y, z and six of the products are written
imuComputeRemoveYaw(quatProd, initialYaw) ==
    OffsetProducts(quatProd,
                   NormaliseQuat(QuaternionProduct(
                       Quat(quatProd), NormaliseQuat(QuaternionFromRPY(0, 0, initialYaw)))))

\* a float converted to an integer parameter: the fraction is dropped
TruncToInt(x) == CASE x[2] = 0 -> Sign(x) * (Abs(x[1]) \div x[3])

\* lrintf of a rational: the nearest integer, a tie to the even one
lrintf(x) ==
    CASE x[2] = 0 ->
        LET fl == x[1] \div x[3]
            twice == 2 * (x[1] - fl * x[3])
        IN  IF twice < x[3] THEN fl
            ELSE IF twice > x[3] THEN fl + 1
            ELSE IF fl % 2 = 0 THEN fl ELSE fl + 1

(***************************************************************************)
(* Throttle angle correction (lines 211-214, 910-924, 940-945)             *)
(***************************************************************************)
calculateThrottleAngleScale(throttle_correction_angle) ==
    Mul(Div(Rat(1800, 1), M_PIf), Rat(900, throttle_correction_angle))

\* acos_approx at the tilt cosines of the runs, in radians to three decimals
AcosApprox(x) ==
    CASE x = One -> Zero
      [] x = Rat(7, 25) -> Rat(1287, 1000)

\* sin_approx(angle / (900.0f * M_PIf / 2.0f)) at the angles of the runs, to
\* three decimals
SinOfThrottleAngle(angle) ==
    CASE angle = 0 -> Zero
      [] angle = 737 -> Rat(498, 1000)
      [] angle = 900 -> Rat(594, 1000)

ClampAngle(angle) == IF angle > 900 THEN 900 ELSE angle

\* calculateThrottleAngleCorrection, cosTilt = getCosTiltAngle() = rMat[2][2]
calculateThrottleAngleCorrection(throttle, cosTilt) ==
    IF Le(cosTilt, Rat(15, 1000))
    THEN 0
    ELSE lrintf(Mul(Rat(throttle.throttleAngleValue, 1),
                    SinOfThrottleAngle(
                        ClampAngle(lrintf(Mul(AcosApprox(cosTilt),
                                              throttle.throttleAngleScale))))))

\* lines 940-943: the correction handed to the mixer
ThrottleAngleCorrection(throttle, flags, armState, R) ==
    IF /\ throttle.throttleAngleValue # 0
       /\ ("ANGLE_MODE" \in flags \/ "HORIZON_MODE" \in flags)
       /\ armState
    THEN calculateThrottleAngleCorrection(throttle, R[3][3])
    ELSE 0

(***************************************************************************)
(* Derived outputs of imuUpdateEulerAngles (lines 527-640).  motor is the  *)
(* record of qPM, qM, qLM, qTM, thrust, pitch, roll (functions of the      *)
(* motor), qPThrustTranslation, translationThrustFix and the statics       *)
(* changedToAngle and motorsSetup; level is the record of qPA, qA,         *)
(* anglePitch, angleRoll and the static inAngleMode of setNewLevel.        *)
(***************************************************************************)
NumMotors == 6
Motors == 1..NumMotors

FlightModes ==
    {"ANGLE_MODE", "HORIZON_MODE", "HEADFREE_MODE", "LYNCH_TRANSLATE", "SET_LYNCH_MODE"}

\* lines 567-576 and 619: pitch and yaw from the head-free quaternion in
\* HEADFREE_MODE and from rMat otherwise, roll from rMat in both; the yaw is
\* the one setNewLevel reads, before lines 637-639
EulerHeadfree(b, R) ==
    [roll |-> HalfPiMinusAcosDecideg(R[3][2]),
     pitch |-> HalfPiMinusAcosDecideg(Mul(Two, Sub(b.wy, b.xz))),
     yaw |-> MinusAtan2Decideg(Mul(Two, Add(b.wz, b.xy)),
                               Sub(One, Mul(Two, Add(b.yy, b.zz))))]

EulerRaw(flags, hf, R) ==
    IF "HEADFREE_MODE" \in flags
    THEN EulerHeadfree(imuQuaternionComputeProducts(hf, QUATERNION_PRODUCTS_INITIALIZE), R)
    ELSE [roll |-> HalfPiMinusAcosDecideg(R[3][2]),
          pitch |-> HalfPiMinusAcosDecideg(Neg(R[3][1])),
          yaw |-> MinusAtan2Decideg(R[2][1], R[1][1])]

\* applyThrustTransition
applyThrustTransition(motor, flags, rc, cosTilt) ==
    IF "LYNCH_TRANSLATE" \in flags
    THEN [motor EXCEPT
             !.qPThrustTranslation =
                 imuComputeMotorQuatOffset(
                     @, TruncToInt(Neg(Mul(rc.roll, Rat(450, 1)))),
                     IF Gt(cosTilt, Zero)
                     THEN TruncToInt(Neg(Mul(rc.pitch, Rat(450, 1))))
                     ELSE TruncToInt(Mul(rc.pitch, Rat(450, 1))), 0),
             !.translationThrustFix =
                 Inv(Mul(CosDecideg(TruncToInt(Mul(rc.roll, Rat(450, 1)))),
                         CosDecideg(TruncToInt(Mul(rc.pitch, Rat(450, 1))))))]
    ELSE [motor EXCEPT
             !.qPThrustTranslation = imuComputeMotorQuatOffset(@, 0, 0, 0),
             !.translationThrustFix = One]

\* a variant that recomputes qM and qLM on every step in ANGLE_MODE
RecomputeMotorWhileAngle(motor, flags) ==
    \/ "SET_LYNCH_MODE" \in flags
    \/ "ANGLE_MODE" \in flags
    \/ motor.motorsSetup = 0

\* line 582: the condition under which qM and qLM are recomputed
RecomputeMotor(motor, flags) ==
    \/ "SET_LYNCH_MODE" \in flags
    \/ ("ANGLE_MODE" \in flags /\ motor.changedToAngle = 0)
    \/ motor.motorsSetup = 0

\* a variant of the write condition without SET_LYNCH_MODE
WriteMotorOutputsLevelOnly(motor, flags) ==
    \/ "ANGLE_MODE" \in flags
    \/ "LYNCH_TRANSLATE" \in flags

\* lines 600-601: the condition under which thrust, pitch and roll are written
WriteMotorOutputs(motor, flags) ==
    \/ "SET_LYNCH_MODE" \in flags
    \/ ("ANGLE_MODE" \in flags /\ motor.changedToAngle = 0)
    \/ "ANGLE_MODE" \in flags
    \/ "LYNCH_TRANSLATE" \in flags

\* lines 588-590 and 623-624
ThrustOf(t) == Sub(Sub(One, Mul(Mul(Two, t[2]), t[2])), Mul(Mul(Two, t[3]), t[3]))
PitchOf(t) ==
    HalfPiMinusAcosDecideg(Neg(Mul(Two, Sub(Mul(t[2], t[4]), Mul(t[1], t[3])))))
RollOf(t) == HalfPiMinusAcosDecideg(Mul(Two, Add(Mul(t[3], t[4]), Mul(t[1], t[2]))))

\* lines 582-585
MotorLatch(motor, quat, flags) ==
    IF RecomputeMotor(motor, flags)
    THEN [motor EXCEPT
             !.qM = [i \in Motors |-> imuQuaternionMultiplicationProd(quat, motor.qPM[i], 1)],
             !.qLM = [i \in Motors |-> imuQuaternionMultiplicationProd(quat, motor.qPM[i], 1)]]
    ELSE motor

\* line 586
MotorTranslate(motor) ==
    [motor EXCEPT
        !.qTM = [i \in Motors |->
                    imuQuaternionMultiplicationProd(motor.qLM[i],
                                                    motor.qPThrustTranslation, 1)]]

\* lines 588-605
MotorWrite(motor, flags) ==
    IF WriteMotorOutputs(motor, flags)
    THEN [motor EXCEPT !.thrust = [i \in Motors |-> ThrustOf(motor.qTM[i])],
                       !.pitch = [i \in Motors |-> PitchOf(motor.qTM[i])],
                       !.roll = [i \in Motors |-> RollOf(motor.qTM[i])]]
    ELSE motor

\* lines 608-613
MotorStatics(motor, flags) ==
    [motor EXCEPT !.changedToAngle = IF "ANGLE_MODE" \in flags THEN 1 ELSE 0,
                  !.motorsSetup = 1]

\* lines 579-613: the thrust translation and the loop over the motors
UpdateMotors(motor, quat, flags, rc, cosTilt) ==
    MotorStatics(
        MotorWrite(
            MotorTranslate(
                MotorLatch(applyThrustTransition(motor, flags, rc, cosTilt), quat, flags)),
            flags),
        flags)

\* a variant that captures in SET_LYNCH_MODE with a stick deflection
\* whether or not ANGLE_MODE is active
CaptureLevelLynchAlone(level, flags, rc) ==
    \/ ("ANGLE_MODE" \in flags /\ level.inAngleMode = 0)
    \/ /\ "SET_LYNCH_MODE" \in flags
       /\ (Gt(FAbs(rc.roll), Rat(1, 10)) \/ Gt(FAbs(rc.pitch), Rat(1, 10)))

\* line 529: the condition under which the level reference is captured
CaptureLevel(level, flags, rc) ==
    \/ ("ANGLE_MODE" \in flags /\ level.inAngleMode = 0)
    \/ /\ "ANGLE_MODE" \in flags
       /\ "SET_LYNCH_MODE" \in flags
       /\ (Gt(FAbs(rc.roll), Rat(1, 10)) \/ Gt(FAbs(rc.pitch), Rat(1, 10)))

\* setNewLevel; yaw is attitude.values.yaw as lines 567-576 left it
setNewLevel(level, quat, flags, rc, yaw) ==
    IF CaptureLevel(level, flags, rc)
    THEN [level EXCEPT
             !.inAngleMode = 1,
             !.qPA = imuComputeRemoveYaw(
                         imuQuaternionComputeProductsProducts(
                             [@ EXCEPT !.w = quat[1], !.x = Neg(quat[2]),
                                       !.y = Neg(quat[3]), !.z = Neg(quat[4])]),
                         yaw)]
    ELSE IF "ANGLE_MODE" \notin flags
    THEN [level EXCEPT !.inAngleMode = 0]
    ELSE level

\* lines 621-624
AngleOutputs(level, quat) ==
    [level EXCEPT !.qA = imuQuaternionMultiplicationProd(quat, level.qPA, 1),
                  !.anglePitch = PitchOf(imuQuaternionMultiplicationProd(quat, level.qPA, 1)),
                  !.angleRoll = RollOf(imuQuaternionMultiplicationProd(quat, level.qPA, 1))]

\* imuUpdateEulerAngles: the Euler angles, the motors and the level reference
imuUpdateEulerAngles(quat, R, hf, flags, rc, motor, level) ==
    [attitude |-> [EulerRaw(flags, hf, R) EXCEPT !.yaw = YawNormalised(@)],
     motor |-> UpdateMotors(motor, quat, flags, rc, R[3][3]),
     level |-> AngleOutputs(setNewLevel(level, quat, flags, rc, EulerRaw(flags, hf, R).yaw),
                            quat)]

(***************************************************************************)
(* Head-free offset (lines 1053-1084)                                      *)
(***************************************************************************)
\* a variant that accepts a tilt of exactly 45 degrees
HeadfreeTiltOkInclusive(att) == Abs(att.roll) <= 450 /\ Abs(att.pitch) <= 450

\* line 1054
HeadfreeTiltOk(att) == Abs(att.roll) < 450 /\ Abs(att.pitch) < 450

\* lines 1055-1060: the offset from the yaw of the product cache qP
HeadfreeOffsetOf(yaw) == <<CosHalfDecideg(yaw), Zero, Zero, SinHalfDecideg(yaw)>>

\* imuQuaternionHeadfreeOffsetSet: the returned flag and the offset after it
imuQuaternionHeadfreeOffsetSet(att, quatProd, off) ==
    IF HeadfreeTiltOk(att)
    THEN [ret |-> TRUE,
          offset |-> HeadfreeOffsetOf(
                         MinusAtan2Decideg(Mul(Two, Add(quatProd.wz, quatProd.xy)),
                                           Sub(One, Mul(Two, Add(quatProd.yy, quatProd.zz)))))]
    ELSE [ret |-> FALSE, offset |-> off]

(***************************************************************************)
(* State                                                                   *)
(***************************************************************************)
VARIABLES
    armed,                    \* ARMING_FLAG(ARMED)
    imuRuntimeConfig,         \* the runtime configuration set by imuConfigure
    currentTimeUs,            \* the clock value of the last tick
    previousIMUUpdateTime,    \* static of imuCalculateEstimatedAttitude
    accAverage,               \* global accAverage[3]
    q, qP, rMat,              \* orientation, its product cache, rotation matrix
    attitude,                 \* Euler angles in decidegrees
    attitudeIsEstablished,
    integralFB,               \* statics integralFBx/y/z of imuMahonyAHRSupdate
    initialized,              \* static of shouldInitializeGPSHeading
    lastArmState, gyroQuietPeriodTimeEnd, attitudeResetTimeEnd,
    attitudeResetCompleted,   \* statics of imuCalcKpGain
    previousCrashTime,        \* static of imuHandleLevelRecovery
    levelRecoveryActive, levelRecoveryStrength,
    obs,                      \* locals and inputs of the last tick
    hist,                     \* history of the ticks, kept for the properties
    accADC,                   \* acc.accADC[3], the last accelerometer sample
    throttle,                 \* throttleAngleScale and throttleAngleValue
    throttleAngleCorrection,  \* the value last given to mixerSetThrottleAngleCorrection
    flightModeFlags,          \* the modes for which FLIGHT_MODE() is true
    rcDeflection,             \* getRcDeflection of ROLL and PITCH
    headfree, offset,         \* the head-free quaternions
    motor,                    \* per-motor quaternions and outputs
    level,                    \* the level reference qPA with qA and the angle outputs
    pc,                       \* where imuUpdateAttitude stands: "idle" or "unlocked"
    imuUpdated, imuDeltaT,    \* statics of the simulator build (SIMULATOR_IMU_SYNC)
    offsetSetReturned         \* what imuQuaternionHeadfreeOffsetSet last returned:
                              \* "true" or "false", "none" before the first call

vars ==
    <<armed, imuRuntimeConfig, currentTimeUs, previousIMUUpdateTime, accAverage,
      q, qP, rMat, attitude, attitudeIsEstablished, integralFB, initialized,
      lastArmState, gyroQuietPeriodTimeEnd, attitudeResetTimeEnd,
      attitudeResetCompleted, previousCrashTime, levelRecoveryActive,
      levelRecoveryStrength, obs, hist, accADC, throttle, throttleAngleCorrection,
      flightModeFlags, rcDeflection, headfree, offset, motor, level, pc, imuUpdated,
      imuDeltaT, offsetSetReturned>>

\* the statics of the tick's functions with the clock
timerVars ==
    <<currentTimeUs, previousIMUUpdateTime, initialized, lastArmState,
      gyroQuietPeriodTimeEnd, attitudeResetTimeEnd, attitudeResetCompleted,
      previousCrashTime, levelRecoveryActive, levelRecoveryStrength>>

\* the orientation and what the tick derives from it
estimateVars ==
    <<accAverage, q, qP, rMat, attitude, attitudeIsEstablished, integralFB, motor, level>>

\* what the tick reads and does not write
pilotVars == <<flightModeFlags, rcDeflection, throttle, headfree, offset>>

\* the statics of the simulator build
simVars == <<imuUpdated, imuDeltaT>>

\* what the callers of the head-free functions were told
resultVars == <<offsetSetReturned>>

(***************************************************************************)
(* Bounds and inputs                                                       *)
(***************************************************************************)
\* the clock advances on a grid of one quiet time
TickUs == ATTITUDE_RESET_QUIET_TIME
\* the longest gap between two ticks of the scheduler runs, in grid steps
MaxStep == 2
\* the horizon of the scheduler runs, in grid steps
MaxTicks == 9
\* the horizon of the level-recovery runs, in grid steps
MaxTicksLevel == 8
\* the horizon of the reference-selection runs, in grid steps
MaxTicksRef == 3
\* the horizon of the accelerometer-health runs, in grid steps
MaxTicksAcc == 2
\* the horizon of the integral-feedback runs, in grid steps
MaxTicksInt == 3
\* the horizon of the simulator runs, in grid steps
MaxTicksSim == 2
\* the horizon of the head-free offset runs, in grid steps
MaxTicksHead == 2
\* the horizon of the derived-output runs, in grid steps
MaxTicksOut == 2
\* ticks of a latch run
MaxTicksLatch == 3
\* raw accelerometer counts per g: 1 / acc.dev.acc_1G_rec
Acc1G == 10

\* imuConfigure, lines 358-364, of the defaults of lines 136-142, with level
\* recovery on or off and a recovery window of five grid steps
RuntimeConfigs ==
    {[dcm_kp |-> Rat(2500, 10000), dcm_ki |-> Rat(7, 10000),
      level_recovery |-> lr, level_recovery_time |-> 5 * (TickUs \div 1000),
      level_recovery_coef |-> 5, level_recovery_threshold |-> 1900] :
        lr \in BOOLEAN}

V3(x, y, z) == <<Rat(x, 1), Rat(y, 1), Rat(z, 1)>>

\* the rate in deg/s that turns the craft by 90 degrees in one tick of dt
\* seconds: DEGREES_TO_RADIANS(rate) * dt / 2 = 1
QuarterTurnRate(dt) == Div(Div(Mul(Two, Rat(180, 1)), M_PIf), dt)

Sensors(accAvail, acc, gyroAverage, gyroADCf, mag, gps) ==
    [accPresent |-> TRUE, accAvail |-> accAvail, acc |-> acc,
     gyroAverage |-> gyroAverage, gyroADCf |-> gyroADCf,
     magSensor |-> mag.magSensor, compassHealthy |-> mag.compassHealthy,
     rescueDisableMag |-> mag.rescueDisableMag, magADC |-> mag.magADC,
     gpsSensor |-> gps.gpsSensor, gpsFix |-> gps.gpsFix, numSat |-> gps.numSat,
     groundSpeed |-> gps.groundSpeed, groundCourse |-> gps.groundCourse]

Mag(sensor, healthy, disabled, magADC) ==
    [magSensor |-> sensor, compassHealthy |-> healthy, rescueDisableMag |-> disabled,
     magADC |-> magADC]

Gps(sensor, fix, numSat, groundSpeed, groundCourse) ==
    [gpsSensor |-> sensor, gpsFix |-> fix, numSat |-> numSat,
     groundSpeed |-> groundSpeed, groundCourse |-> groundCourse]

NoMag == Mag(FALSE, FALSE, FALSE, VZero)
NoGps == Gps(FALSE, FALSE, 0, 0, 0)

(***************************************************************************)
(* Initial state: the statics and globals as initialised in imu.c, after   *)
(* imuInit and imuConfigure                                                *)
(***************************************************************************)
EULER_INITIALIZE == [roll |-> 0, pitch |-> 0, yaw |-> 0]

\* the magnetometer and GPS readings among the inputs of a tick
HeadingInputs(in) ==
    [magSensor |-> in.magSensor, compassHealthy |-> in.compassHealthy,
     rescueDisableMag |-> in.rescueDisableMag, magADC |-> in.magADC,
     gpsSensor |-> in.gpsSensor, gpsFix |-> in.gpsFix, numSat |-> in.numSat,
     groundSpeed |-> in.groundSpeed, groundCourse |-> in.groundCourse]

\* before the first tick: no inputs read, no locals computed
NoObs ==
    [ticked |-> FALSE,
     in |-> HeadingInputs(Sensors(FALSE, VZero, VZero, <<0, 0, 0>>, NoMag, NoGps)),
     armState |-> FALSE, gyroActivity |-> FALSE, useAcc |-> Zero,
     useMag |-> FALSE, magApplied |-> FALSE, cogCondition |-> FALSE,
     useCOG |-> FALSE, gpsHeadingInit |-> FALSE,
     attitudeResetActive |-> FALSE, dcmKpGain |-> Zero,
     lrActive |-> FALSE, lrStrength |-> 0, spinRateSq |-> Zero, e |-> VZero,
     rMat |-> RotationMatrixOf(QUATERNION_PRODUCTS_INITIALIZE), steps |-> <<>>,
     zeroed |-> <<>>]

NoHist ==
    [prevArm |-> FALSE, disarmSeen |-> FALSE, lastDisturb |-> -1,
     cycleStart |-> -1, cause |-> "none", openTick |-> -1, closeTick |-> -1,
     interrupted |-> FALSE, completions |-> 0,
     cogSeen |-> FALSE, firstCog |-> FALSE, inits |-> 0, sinceInit |-> -1, initCourse |-> 0,
     stillSinceInit |-> FALSE, armedCrash |-> -1,
     derived |-> FALSE, angleAtLast |-> FALSE, captures |-> 0]

\* imuConfigure, lines 369-371: the throttle-angle scale and value
ConfiguredThrottle(throttle_correction_angle, throttle_correction_value) ==
    [throttleAngleScale |-> calculateThrottleAngleScale(throttle_correction_angle),
     throttleAngleValue |-> throttle_correction_value]

\* imuConfigure, lines 374-376 and 378: the motor offsets from the mount
\* angles (degrees) of the configuration, and the thrust translation
ConfiguredMotor(m, mounts) ==
    [m EXCEPT
        !.qPM = [i \in Motors |->
                    imuComputeMotorQuatOffset(m.qPM[i], mounts[i].roll * 10,
                                              mounts[i].pitch * 10, mounts[i].yaw * 10)],
        !.qPThrustTranslation = imuComputeMotorQuatOffset(@, 0, 0, 0)]

\* imuConfigure, line 377
ConfiguredLevel(l) == [l EXCEPT !.qPA = imuComputeMotorQuatOffset(@, 0, 0, 0)]

\* lines 111-124: the initialisers of the per-motor and level globals
MotorInitial ==
    [qPM |-> [i \in Motors |-> QUATERNION_PRODUCTS_INITIALIZE],
     qM |-> [i \in Motors |-> QUATERNION_INITIALIZE],
     qLM |-> [i \in Motors |-> QUATERNION_INITIALIZE],
     qTM |-> [i \in Motors |-> QUATERNION_INITIALIZE],
     thrust |-> [i \in Motors |-> Zero],
     pitch |-> [i \in Motors |-> 0],
     roll |-> [i \in Motors |-> 0],
     qPThrustTranslation |-> QUATERNION_PRODUCTS_INITIALIZE,
     translationThrustFix |-> One,
     changedToAngle |-> 0, motorsSetup |-> 0]

LevelInitial ==
    [qPA |-> QUATERNION_PRODUCTS_INITIALIZE, qA |-> QUATERNION_INITIALIZE,
     anglePitch |-> 0, angleRoll |-> 0, inAngleMode |-> 0]

\* the mount angles of the default configuration (lines 143-145), and a
\* frame whose first motor is rolled by 90 degrees
MountsLevel == [i \in Motors |-> [roll |-> 0, pitch |-> 0, yaw |-> 0]]
MountsTilted == [MountsLevel EXCEPT ![1] = [roll |-> 90, pitch |-> 0, yaw |-> 0]]

\* the state after boot with the given runtime configuration, throttle
\* correction, mount angles and flight modes
InitOf(cfg, thr, mounts, flags) ==
    /\ armed = FALSE
    /\ imuRuntimeConfig = cfg
    /\ accADC = <<0, 0, 0>>
    /\ throttle = thr
    /\ throttleAngleCorrection = 0
    /\ flightModeFlags = flags
    /\ rcDeflection = [roll |-> Zero, pitch |-> Zero]
    /\ headfree = QUATERNION_INITIALIZE
    /\ offset = QUATERNION_INITIALIZE
    /\ motor = ConfiguredMotor(MotorInitial, mounts)
    /\ level = ConfiguredLevel(LevelInitial)
    /\ pc = "idle"
    /\ imuUpdated = FALSE
    /\ imuDeltaT = 0
    /\ offsetSetReturned = "none"
    /\ currentTimeUs = 0
    /\ previousIMUUpdateTime = 0
    /\ accAverage = VZero
    /\ q = QUATERNION_INITIALIZE
    /\ qP = imuComputeRotationMatrix(QUATERNION_INITIALIZE, QUATERNION_PRODUCTS_INITIALIZE).qP
    /\ rMat = imuComputeRotationMatrix(QUATERNION_INITIALIZE, QUATERNION_PRODUCTS_INITIALIZE).rMat
    /\ attitude = EULER_INITIALIZE
    /\ attitudeIsEstablished = FALSE
    /\ integralFB = VZero
    /\ initialized = FALSE
    /\ lastArmState = FALSE
    /\ gyroQuietPeriodTimeEnd = 0
    /\ attitudeResetTimeEnd = 0
    /\ attitudeResetCompleted = FALSE
    /\ previousCrashTime = 0
    /\ levelRecoveryActive = FALSE
    /\ levelRecoveryStrength = 0
    /\ obs = NoObs
    /\ hist = NoHist

\* the default mounts, no throttle correction value, no flight mode
Init == \E cfg \in RuntimeConfigs : InitOf(cfg, ConfiguredThrottle(800, 0), MountsLevel, {})

(***************************************************************************)
(* Reference selection of imuCalculateEstimatedAttitude                    *)
(***************************************************************************)
\* a variant that does not latch
shouldInitializeGPSHeadingAlways(init) == [ret |-> TRUE, initialized |-> TRUE]

\* shouldInitializeGPSHeading: true on the first call only
shouldInitializeGPSHeading(init) == [ret |-> ~init, initialized |-> TRUE]

\* a variant that ignores GPS rescue
UseMagIgnoringRescue(in) == in.magSensor /\ in.compassHealthy

\* lines 844-850: the magnetometer flag
UseMag(in) == in.magSensor /\ in.compassHealthy /\ ~in.rescueDisableMag

\* the GPS part of line 853
GpsUsable(in) ==
    /\ in.gpsSensor
    /\ in.gpsFix
    /\ in.numSat >= GPS_MIN_NUMSAT
    /\ in.groundSpeed >= GPS_COG_MIN_GROUNDSPEED

\* line 853: the condition under which the course over ground is considered
CogCondition(in) == ~UseMag(in) /\ GpsUsable(in)

(***************************************************************************)
(* History variables.  hist records, from the clock and the inputs of the  *)
(* ticks alone, what the properties below speak about; it is read by no    *)
(* step of the estimator.                                                  *)
(***************************************************************************)
\* a disturbance: a gyro axis above 15 deg/s in magnitude, or an
\* accelerometer of strength 0
Disturbed(gyroAverage, useAcc) ==
    \/ \E i \in 1..3 : Gt(FAbs(gyroAverage[i]), Rat(15, 1))
    \/ useAcc = Zero

\* the compass is present, healthy and not disabled by GPS rescue
CompassSelected(in) == in.magSensor /\ in.compassHealthy /\ ~in.rescueDisableMag

\* a GPS is present with a fix, at least 5 satellites and at least 500 cm/s
GpsCourseValid(in) ==
    in.gpsSensor /\ in.gpsFix /\ in.numSat >= 5 /\ in.groundSpeed >= 500

\* the arming state and the disturbances: the tick that starts a quiet
\* period (cycleStart, by a disarm or by a disturbance), the first tick at
\* or after its end (openTick), the first tick at or after
\* ATTITUDE_RESET_ACTIVE_TIME from there (closeTick), and whether a
\* disturbance arrived between the two (interrupted)
HistSched(h, now, armState, disturbed) ==
    IF armState
    THEN [h EXCEPT !.prevArm = TRUE, !.cycleStart = -1, !.cause = "none",
                   !.openTick = -1, !.closeTick = -1, !.interrupted = FALSE]
    ELSE LET d == [h EXCEPT !.prevArm = FALSE,
                            !.disarmSeen = h.disarmSeen \/ h.prevArm,
                            !.lastDisturb = IF disturbed THEN now ELSE h.lastDisturb,
                            !.interrupted = FALSE]
         IN  IF h.prevArm
             THEN [d EXCEPT !.cycleStart = now, !.cause = "disarm",
                            !.openTick = -1, !.closeTick = -1]
             ELSE IF disturbed /\ h.disarmSeen
             THEN [d EXCEPT !.cycleStart = now, !.cause = "disturb",
                            !.openTick = -1, !.closeTick = -1,
                            !.interrupted = h.openTick >= 0 /\ h.closeTick = -1]
             ELSE IF /\ h.cycleStart >= 0
                     /\ h.openTick = -1
                     /\ now >= h.cycleStart + ATTITUDE_RESET_QUIET_TIME
             THEN [d EXCEPT !.openTick = now]
             ELSE IF /\ h.openTick >= 0
                     /\ h.closeTick = -1
                     /\ now >= h.openTick + ATTITUDE_RESET_ACTIVE_TIME
             THEN [d EXCEPT !.closeTick = now,
                            !.completions = IF h.completions < 2 THEN h.completions + 1
                                            ELSE 2]
             ELSE d

\* the GPS heading initialisation: whether the conditions for the course
\* over ground have held (cogSeen) and hold for the first time on this tick
\* (firstCog), how often the initialisation ran, how many ticks ago (up to
\* 2) and with which course, and whether the gyro has been at rest on every
\* tick since
HistGps(h, cond, ran, course, still) ==
    [h EXCEPT !.cogSeen = h.cogSeen \/ cond,
              !.firstCog = cond /\ ~h.cogSeen,
              !.inits = IF ran THEN h.inits + 1 ELSE h.inits,
              !.sinceInit = IF ran THEN 0
                            ELSE IF h.sinceInit \in {0, 1} THEN h.sinceInit + 1
                            ELSE h.sinceInit,
              !.initCourse = IF ran THEN course ELSE h.initCourse,
              !.stillSinceInit = IF ran THEN still ELSE h.stillSinceInit /\ still]

\* the crashes: the time of the last tick executed while armed on which a
\* gyro axis was beyond the threshold in magnitude, -1 before the first
HistCrash(h, now, armState, gyroADCf, threshold) ==
    IF armState /\ \E i \in 1..3 : Abs(gyroADCf[i]) > threshold
    THEN [h EXCEPT !.armedCrash = now]
    ELSE h

\* the derive steps (calls of imuUpdateEulerAngles): whether one has run
\* since boot, whether ANGLE_MODE was active on the last one, and how often
\* (up to 3) the level reference qPA has been captured
HistDerive(h, flags, captured) ==
    [h EXCEPT !.derived = TRUE,
              !.angleAtLast = "ANGLE_MODE" \in flags,
              !.captures = IF captured /\ h.captures < 3 THEN h.captures + 1
                           ELSE h.captures]

\* a variant of the statement order that reads the sensor averages before
\* the magnetometer and the GPS course are examined
TickStepsAveragesFirst(init, accAvail, lr, published) ==
    <<"deltaT", "gyroAverage", "accAverage", "useMag", "gpsUsable">>
    \o (IF init THEN <<"gpsHeadingInit">> ELSE <<>>)
    \o (IF accAvail THEN <<"useAcc">> ELSE <<>>)
    \o (IF lr THEN <<"levelRecovery">> ELSE <<>>)
    \o <<"kpGain", "mahony", "eulerAngles">>
    \o (IF published THEN <<"publish">> ELSE <<>>)

(***************************************************************************)
(* The tick: imuUpdateAttitude with imuCalculateEstimatedAttitude          *)
(***************************************************************************)
\* the steps of a tick in the order of the source lines that execute them
TickSteps(init, accAvail, lr, published) ==
    <<"deltaT", "useMag", "gpsUsable">>
    \o (IF init THEN <<"gpsHeadingInit">> ELSE <<>>)
    \o <<"gyroAverage", "accAverage">>
    \o (IF accAvail THEN <<"useAcc">> ELSE <<>>)
    \o (IF lr THEN <<"levelRecovery">> ELSE <<>>)
    \o <<"kpGain", "mahony", "eulerAngles">>
    \o (IF published THEN <<"publish">> ELSE <<>>)

\* imuCalculateEstimatedAttitude with the interval deltaT in microseconds;
\* published tells whether the caller hands the throttle-angle correction to
\* the mixer in the same step
imuCalculateEstimatedAttitude(now, deltaT, in, published) ==
    /\ \E should \in {IF CogCondition(in) THEN shouldInitializeGPSHeading(initialized)
                       ELSE [ret |-> FALSE, initialized |-> initialized]} :
       \E o \in {IF should.ret
                 THEN imuComputeQuaternionFromRPY(q, qP, attitude.roll, attitude.pitch,
                                                  in.groundCourse)
                 ELSE [q |-> q, qP |-> qP, rMat |-> rMat]} :
       \E acc \in {IF in.accAvail THEN in.acc ELSE accAverage} :
       \E useAcc \in {IF in.accAvail THEN imuIsAccelerometerHealthy(acc, Rat(1, Acc1G))
                       ELSE Zero} :
       \E lr \in {IF imuRuntimeConfig.level_recovery
                  THEN imuHandleLevelRecovery(
                           [previousCrashTime |-> previousCrashTime,
                            levelRecoveryActive |-> levelRecoveryActive,
                            levelRecoveryStrength |-> levelRecoveryStrength],
                           imuRuntimeConfig, now, in.gyroADCf, armed)
                  ELSE [previousCrashTime |-> previousCrashTime,
                        levelRecoveryActive |-> levelRecoveryActive,
                        levelRecoveryStrength |-> levelRecoveryStrength]} :
       \E kp \in {imuCalcKpGain([lastArmState |-> lastArmState,
                                  gyroQuietPeriodTimeEnd |-> gyroQuietPeriodTimeEnd,
                                  attitudeResetTimeEnd |-> attitudeResetTimeEnd,
                                  attitudeResetCompleted |-> attitudeResetCompleted],
                                 imuRuntimeConfig, now, useAcc, in.gyroAverage, armed,
                                 lr.levelRecoveryActive, lr.levelRecoveryStrength)} :
       \E m \in {imuMahonyAHRSupdate(
                     o.q, o.qP, o.rMat, integralFB, imuRuntimeConfig.dcm_ki,
                     Rat(deltaT, 1000000),
                     <<DEGREES_TO_RADIANS(in.gyroAverage[1]),
                       DEGREES_TO_RADIANS(in.gyroAverage[2]),
                       DEGREES_TO_RADIANS(in.gyroAverage[3])>>,
                     useAcc, acc, UseMag(in), in.magADC,
                     CogCondition(in) /\ ~should.ret, in.groundCourse, kp.ret)} :
           /\ Cardinality(m.nearest) = 1
           /\ currentTimeUs' = now
           /\ previousIMUUpdateTime' = now
           /\ accAverage' = acc
           /\ initialized' = should.initialized
           /\ previousCrashTime' = lr.previousCrashTime
           /\ levelRecoveryActive' = lr.levelRecoveryActive
           /\ levelRecoveryStrength' = lr.levelRecoveryStrength
           /\ lastArmState' = kp.sched.lastArmState
           /\ gyroQuietPeriodTimeEnd' = kp.sched.gyroQuietPeriodTimeEnd
           /\ attitudeResetTimeEnd' = kp.sched.attitudeResetTimeEnd
           /\ attitudeResetCompleted' = kp.sched.attitudeResetCompleted
           /\ q' = m.q
           /\ qP' = m.qP
           /\ rMat' = m.rMat
           /\ integralFB' = m.integralFB
           /\ attitudeIsEstablished' = TRUE
           /\ \E eu \in {imuUpdateEulerAngles(m.q, m.rMat, headfree, flightModeFlags,
                                                 rcDeflection, motor, level)} :
                  /\ attitude' = eu.attitude
                  /\ motor' = eu.motor
                  /\ level' = eu.level
           /\ obs' = [ticked |-> TRUE, in |-> HeadingInputs(in), armState |-> armed,
                      gyroActivity |-> GyroActivity(in.gyroAverage, useAcc),
                      useAcc |-> useAcc, useMag |-> UseMag(in),
                      magApplied |-> MagApplied(UseMag(in), in.magADC),
                      cogCondition |-> CogCondition(in),
                      useCOG |-> CogCondition(in) /\ ~should.ret,
                      gpsHeadingInit |-> should.ret,
                      attitudeResetActive |-> kp.attitudeResetActive,
                      dcmKpGain |-> kp.ret,
                      lrActive |-> lr.levelRecoveryActive,
                      lrStrength |-> lr.levelRecoveryStrength,
                      spinRateSq |-> VNormSq(in.gyroAverage), e |-> m.e,
                      rMat |-> m.rMat,
                      steps |-> TickSteps(should.ret, in.accAvail,
                                          imuRuntimeConfig.level_recovery, published),
                      zeroed |-> <<>>]
           /\ hist' = HistDerive(
                          HistCrash(
                              HistGps(HistSched(hist, now, armed,
                                                Disturbed(in.gyroAverage, useAcc)),
                                      ~CompassSelected(in) /\ GpsCourseValid(in),
                                      should.ret, in.groundCourse, in.gyroAverage = VZero),
                              now, armed, in.gyroADCf,
                              imuRuntimeConfig.level_recovery_threshold),
                          flightModeFlags, CaptureLevel(level, flightModeFlags, rcDeflection))
           /\ UNCHANGED <<armed, imuRuntimeConfig, pilotVars>>

\* the statics of the tick's functions
tickStatics ==
    <<previousIMUUpdateTime, initialized, lastArmState, gyroQuietPeriodTimeEnd,
      attitudeResetTimeEnd, attitudeResetCompleted, previousCrashTime,
      levelRecoveryActive, levelRecoveryStrength>>

\* a variant that takes the call for a tick and moves the timestamp
imuUpdateAttitudeNoAccStamps(now) ==
    /\ accADC' = <<0, 0, 0>>
    /\ currentTimeUs' = now
    /\ previousIMUUpdateTime' = now
    /\ obs' = [obs EXCEPT !.ticked = FALSE, !.zeroed = accADC]
    /\ UNCHANGED <<armed, imuRuntimeConfig, initialized, lastArmState,
                   gyroQuietPeriodTimeEnd, attitudeResetTimeEnd, attitudeResetCompleted,
                   previousCrashTime, levelRecoveryActive, levelRecoveryStrength,
                   estimateVars, pilotVars, hist, throttleAngleCorrection, pc, simVars,
                   resultVars>>

\* lines 947-951: without an accelerometer the call zeroes acc.accADC;
\* obs.zeroed keeps the sample that was there
imuUpdateAttitudeNoAcc(now) ==
    /\ accADC' = <<0, 0, 0>>
    /\ currentTimeUs' = now
    /\ obs' = [obs EXCEPT !.ticked = FALSE, !.zeroed = accADC]
    /\ UNCHANGED <<armed, imuRuntimeConfig, tickStatics, estimateVars, pilotVars, hist,
                   throttleAngleCorrection, pc, simVars, resultVars>>

\* imuUpdateAttitude where IMU_LOCK and IMU_UNLOCK are empty (every build
\* but the multithreaded simulator): the call is one step
imuUpdateAttitude(now, in) ==
    /\ pc = "idle"
    /\ IF in.accPresent
       THEN /\ imuCalculateEstimatedAttitude(now, now - previousIMUUpdateTime, in, TRUE)
            /\ throttleAngleCorrection' =
                   ThrottleAngleCorrection(throttle, flightModeFlags, armed, rMat')
            /\ UNCHANGED <<accADC, pc, simVars, resultVars>>
       ELSE imuUpdateAttitudeNoAcc(now)


\* the arming state machine of the flight controller sets and clears ARMED
Arm ==
    /\ pc = "idle"
    /\ ~armed
    /\ armed' = TRUE
    /\ UNCHANGED <<imuRuntimeConfig, currentTimeUs, previousIMUUpdateTime, accAverage,
                   q, qP, rMat, attitude, attitudeIsEstablished, integralFB,
                   initialized, lastArmState, gyroQuietPeriodTimeEnd,
                   attitudeResetTimeEnd, attitudeResetCompleted, previousCrashTime,
                   levelRecoveryActive, levelRecoveryStrength, obs, hist, accADC,
                   throttleAngleCorrection, motor, level, pc, pilotVars, simVars, resultVars>>

\* imuConfigure: the runtime configuration, the throttle-angle correction,
\* the motor offsets, the level reference and the thrust translation
imuConfigure(cfg, throttle_correction_angle, throttle_correction_value, mounts) ==
    /\ pc = "idle"
    /\ imuRuntimeConfig' = cfg
    /\ throttle' = ConfiguredThrottle(throttle_correction_angle, throttle_correction_value)
    /\ motor' = ConfiguredMotor(motor, mounts)
    /\ level' = ConfiguredLevel(level)
    /\ UNCHANGED <<armed, timerVars, accAverage, q, qP, rMat, attitude,
                   attitudeIsEstablished, integralFB, obs, hist, accADC,
                   throttleAngleCorrection, flightModeFlags, rcDeflection, headfree,
                   offset, pc, simVars, resultVars>>

\* the accelerometer driver stores a sample of 1 g along z
accUpdate ==
    /\ accADC' = <<0, 0, Acc1G>>
    /\ UNCHANGED <<armed, imuRuntimeConfig, timerVars, estimateVars, pilotVars, obs, hist,
                   throttleAngleCorrection, pc, simVars, resultVars>>

Disarm ==
    /\ pc = "idle"
    /\ armed
    /\ armed' = FALSE
    /\ UNCHANGED <<imuRuntimeConfig, currentTimeUs, previousIMUUpdateTime, accAverage,
                   q, qP, rMat, attitude, attitudeIsEstablished, integralFB,
                   initialized, lastArmState, gyroQuietPeriodTimeEnd,
                   attitudeResetTimeEnd, attitudeResetCompleted, previousCrashTime,
                   levelRecoveryActive, levelRecoveryStrength, obs, hist, accADC,
                   throttleAngleCorrection, motor, level, pc, pilotVars, simVars, resultVars>>

(***************************************************************************)
(* The scheduler runs: the gain scheduler under arming, disarming and      *)
(* disturbances                                                            *)
(***************************************************************************)
\* accelerometer at 1 g along body z, or of |a|^2 = 0.5 g^2 (strength 0);
\* gyro average at rest, at ATTITUDE_RESET_GYRO_LIMIT, or just above it
SchedInputs ==
    {Sensors(TRUE, V3(0, 0, 10), V3(0, 0, 0), <<0, 0, 0>>, NoMag, NoGps),
     Sensors(TRUE, V3(0, 0, 10), V3(15, 0, 0), <<0, 0, 0>>, NoMag, NoGps),
     Sensors(TRUE, V3(0, 0, 10), V3(0, -16, 0), <<0, 0, 0>>, NoMag, NoGps),
     Sensors(TRUE, V3(0, 0, 10), V3(0, 0, 16), <<0, 0, 0>>, NoMag, NoGps),
     Sensors(TRUE, V3(5, 5, 0), V3(0, 0, 0), <<0, 0, 0>>, NoMag, NoGps)}

TickSched ==
    \E k \in 1..MaxStep :
        /\ currentTimeUs + k * TickUs <= MaxTicks * TickUs
        /\ \E in \in SchedInputs : imuUpdateAttitude(currentTimeUs + k * TickUs, in)

Next == Arm \/ Disarm \/ TickSched

Spec == Init /\ [][Next]_vars

(***************************************************************************)
(* The level-recovery runs: crashes while armed and disarmed               *)
(***************************************************************************)
\* filtered gyro at rest, at level_recovery_threshold, or just above it on
\* one axis
LevelInputs ==
    {Sensors(TRUE, V3(0, 0, 10), V3(0, 0, 0), c, NoMag, NoGps) :
        c \in {<<0, 0, 0>>, <<1900, 0, 0>>, <<0, -1901, 0>>, <<0, 0, 1901>>}}

TickLevel ==
    \E k \in 1..MaxStep :
        /\ currentTimeUs + k * TickUs <= MaxTicksLevel * TickUs
        /\ \E in \in LevelInputs : imuUpdateAttitude(currentTimeUs + k * TickUs, in)

NextLevel == Arm \/ Disarm \/ TickLevel

SpecLevel == Init /\ [][NextLevel]_vars

(***************************************************************************)
(* The reference-selection runs: magnetometer, course over ground and the  *)
(* GPS heading initialisation                                              *)
(***************************************************************************)
\* magnetometer: absent, unhealthy, disabled by GPS rescue, healthy with a
\* zero vector, healthy pointing along body x
MagRef ==
    {NoMag, Mag(TRUE, FALSE, FALSE, V3(3, 0, 0)), Mag(TRUE, TRUE, TRUE, V3(3, 0, 0)),
     Mag(TRUE, TRUE, FALSE, VZero), Mag(TRUE, TRUE, FALSE, V3(3, 0, 0))}
\* GPS: usable with a course of 90 degrees
GpsCourse == Gps(TRUE, TRUE, 5, 500, 900)
\* GPS: absent, no fix, too few satellites, too slow, usable
GpsRef ==
    {NoGps, Gps(TRUE, FALSE, 8, 600, 900), Gps(TRUE, TRUE, 4, 600, 900),
     Gps(TRUE, TRUE, 5, 499, 900), GpsCourse}

\* at rest: every magnetometer with the usable GPS, every GPS without a
\* magnetometer, the magnetometer along body x without a GPS; a quarter turn
\* about body z within the tick; a tick without an accelerometer average
RefInputs(dt) ==
    {Sensors(TRUE, V3(0, 0, 10), VZero, <<0, 0, 0>>, m, GpsCourse) : m \in MagRef}
    \cup {Sensors(TRUE, V3(0, 0, 10), VZero, <<0, 0, 0>>, NoMag, p) : p \in GpsRef}
    \cup {Sensors(TRUE, V3(0, 0, 10), VZero, <<0, 0, 0>>,
                  Mag(TRUE, TRUE, FALSE, V3(3, 0, 0)), NoGps),
          Sensors(TRUE, V3(0, 0, 10), <<Zero, Zero, QuarterTurnRate(dt)>>, <<0, 0, 0>>,
                  NoMag, NoGps),
          Sensors(FALSE, VZero, VZero, <<0, 0, 0>>, NoMag, GpsCourse)}

TickRef ==
    /\ currentTimeUs + TickUs <= MaxTicksRef * TickUs
    /\ \E in \in RefInputs(Rat(currentTimeUs + TickUs - previousIMUUpdateTime, 1000000)) :
           imuUpdateAttitude(currentTimeUs + TickUs, in)

NextRef == Arm \/ Disarm \/ TickRef

SpecRef == Init /\ [][NextRef]_vars

(***************************************************************************)
(* The accelerometer-health runs                                           *)
(***************************************************************************)
\* accelerometer samples of |a|^2 from 0.25 g^2 to 1.96 g^2, among them
\* 0.5 g^2, 1 g^2 and 1.69 g^2
AccInputs ==
    {Sensors(TRUE, a, VZero, <<0, 0, 0>>, NoMag, NoGps) :
        a \in {V3(0, 0, k) : k \in 5..14} \cup {V3(5, 5, 0)}}

TickAcc ==
    /\ currentTimeUs + TickUs <= MaxTicksAcc * TickUs
    /\ \E in \in AccInputs : imuUpdateAttitude(currentTimeUs + TickUs, in)

NextAcc == Arm \/ Disarm \/ TickAcc

SpecAcc == Init /\ [][NextAcc]_vars

(***************************************************************************)
(* The integral-feedback runs: the spin-rate limit, a configuration        *)
(* without integral gain, and calls without an accelerometer               *)
(***************************************************************************)
\* the defaults with dcm_ki = 7 or dcm_ki = 0, level recovery off
IntConfigs ==
    {[dcm_kp |-> Rat(2500, 10000), dcm_ki |-> ki,
      level_recovery |-> FALSE, level_recovery_time |-> 5 * (TickUs \div 1000),
      level_recovery_coef |-> 5, level_recovery_threshold |-> 1900] :
        ki \in {Zero, Rat(7, 10000)}}

\* sensors(SENSOR_ACC) && acc.isAccelUpdatedAtLeastOnce is false
NoAccelerometer ==
    [Sensors(FALSE, VZero, VZero, <<0, 0, 0>>, NoMag, NoGps) EXCEPT !.accPresent = FALSE]

\* accelerometer along body z (no error at level), along body y (an error at
\* level), or of strength 0; gyro at rest, at SPIN_RATE_LIMIT, or half a
\* degree per second below it; or no accelerometer
IntInputs ==
    {Sensors(TRUE, a, g, <<0, 0, 0>>, NoMag, NoGps) :
        a \in {V3(0, 0, 10), V3(0, 10, 0), V3(5, 5, 0)},
        g \in {VZero, V3(20, 0, 0), <<Rat(39, 2), Zero, Zero>>}}
    \cup {NoAccelerometer}

InitInt == \E cfg \in IntConfigs : InitOf(cfg, ConfiguredThrottle(800, 0), MountsLevel, {})

TickInt ==
    /\ currentTimeUs + TickUs <= MaxTicksInt * TickUs
    /\ \E in \in IntInputs : imuUpdateAttitude(currentTimeUs + TickUs, in)

ConfigureInt ==
    \E cfg \in IntConfigs \ {imuRuntimeConfig} : imuConfigure(cfg, 800, 0, MountsLevel)

NextInt == TickInt \/ ConfigureInt \/ accUpdate

SpecInt == InitInt /\ [][NextInt]_vars

(***************************************************************************)
(* The simulator runs: the build with SIMULATOR_BUILD, SIMULATOR_MULTITHREAD,*)
(* SIMULATOR_IMU_SYNC and USE_IMU_CALC.  The tick runs on the scheduler    *)
(* thread and the setters on the simulator thread; IMU_LOCK makes each     *)
(* critical section one step, and a step of the other thread can fall      *)
(* between any two of them.                                                *)
(***************************************************************************)
\* imuUpdateAttitude from IMU_LOCK to IMU_UNLOCK (lines 929-938)
imuUpdateAttitudeLocked(now, in) ==
    /\ pc = "idle"
    /\ IF in.accPresent
       THEN IF imuUpdated
            THEN /\ imuCalculateEstimatedAttitude(now, imuDeltaT, in, FALSE)
                 /\ imuUpdated' = FALSE
                 /\ pc' = "unlocked"
                 /\ UNCHANGED <<accADC, throttleAngleCorrection, imuDeltaT, resultVars>>
            ELSE /\ currentTimeUs' = now
                 /\ obs' = [obs EXCEPT !.ticked = FALSE, !.zeroed = <<>>]
                 /\ UNCHANGED <<armed, imuRuntimeConfig, tickStatics, estimateVars,
                                pilotVars, hist, accADC, throttleAngleCorrection, pc,
                                simVars, resultVars>>
       ELSE imuUpdateAttitudeNoAcc(now)

\* imuUpdateAttitude after IMU_UNLOCK (lines 940-945)
imuUpdateAttitudePublish ==
    /\ pc = "unlocked"
    /\ throttleAngleCorrection' =
           ThrottleAngleCorrection(throttle, flightModeFlags, armed, rMat)
    /\ pc' = "idle"
    /\ obs' = [obs EXCEPT !.steps = Append(@, "publish")]
    /\ UNCHANGED <<armed, imuRuntimeConfig, timerVars, estimateVars, pilotVars, hist,
                   accADC, simVars, resultVars>>

imuSetAttitudeRPY(roll, pitch, yaw) ==
    /\ attitude' = [roll |-> TruncToInt(Mul(roll, Rat(10, 1))),
                    pitch |-> TruncToInt(Mul(pitch, Rat(10, 1))),
                    yaw |-> TruncToInt(Mul(yaw, Rat(10, 1)))]
    /\ UNCHANGED <<armed, imuRuntimeConfig, timerVars, accAverage, q, qP, rMat,
                   attitudeIsEstablished, integralFB, motor, level, pilotVars, obs, hist,
                   accADC, throttleAngleCorrection, pc, simVars, resultVars>>

imuSetAttitudeQuat(w, x, y, z) ==
    \E o \in {imuComputeRotationMatrix(<<w, x, y, z>>, qP)} :
    \E eu \in {imuUpdateEulerAngles(o.q, o.rMat, headfree, flightModeFlags, rcDeflection,
                                    motor, level)} :
        /\ q' = o.q
        /\ qP' = o.qP
        /\ rMat' = o.rMat
        /\ attitudeIsEstablished' = TRUE
        /\ attitude' = eu.attitude
        /\ motor' = eu.motor
        /\ level' = eu.level
        /\ hist' = HistDerive(hist, flightModeFlags,
                              CaptureLevel(level, flightModeFlags, rcDeflection))
        /\ UNCHANGED <<armed, imuRuntimeConfig, timerVars, accAverage, integralFB,
                       pilotVars, obs, accADC, throttleAngleCorrection, pc, simVars,
                       resultVars>>

imuSetHasNewData(dt) ==
    /\ imuUpdated' = TRUE
    /\ imuDeltaT' = dt
    /\ UNCHANGED <<armed, imuRuntimeConfig, timerVars, estimateVars, pilotVars, obs, hist,
                   accADC, throttleAngleCorrection, pc, resultVars>>

\* imuQuaternionHeadfreeTransformVectorEarthToBody, line 1074: the head-free
\* quaternion is the offset times q; the vector v is the caller's
imuQuaternionHeadfreeTransformVectorEarthToBody ==
    /\ pc = "idle"
    /\ headfree' = imuQuaternionMultiplication(offset, q)
    /\ UNCHANGED <<armed, imuRuntimeConfig, timerVars, estimateVars, flightModeFlags,
                   rcDeflection, throttle, offset, obs, hist, accADC,
                   throttleAngleCorrection, pc, simVars, resultVars>>

\* the mode switches of the pilot set and clear the flight modes
SetFlightModes(flags) ==
    /\ pc = "idle"
    /\ flightModeFlags' = flags
    /\ UNCHANGED <<armed, imuRuntimeConfig, timerVars, estimateVars, rcDeflection,
                   throttle, headfree, offset, obs, hist, accADC,
                   throttleAngleCorrection, pc, simVars, resultVars>>

\* the pilot moves the roll and pitch sticks
SetRcDeflection(rc) ==
    /\ pc = "idle"
    /\ rcDeflection' = rc
    /\ UNCHANGED <<armed, imuRuntimeConfig, timerVars, estimateVars, flightModeFlags,
                   throttle, headfree, offset, obs, hist, accADC,
                   throttleAngleCorrection, pc, simVars, resultVars>>

\* imuQuaternionHeadfreeOffsetSet, called between two ticks
HeadfreeOffsetSet ==
    /\ pc = "idle"
    /\ \E r \in {imuQuaternionHeadfreeOffsetSet(attitude, qP, offset)} :
           /\ offset' = r.offset
           /\ offsetSetReturned' = IF r.ret THEN "true" ELSE "false"
    /\ UNCHANGED <<armed, imuRuntimeConfig, timerVars, estimateVars, flightModeFlags,
                   rcDeflection, throttle, headfree, obs, hist, accADC,
                   throttleAngleCorrection, pc, simVars>>

\* the arguments of imuSetAttitudeQuat: a bank of 73.7 degrees (a unit
\* quaternion), twice the identity, a yaw of 90 degrees
SimQuats ==
    {<<Rat(4, 5), Rat(3, 5), Zero, Zero>>, <<Two, Zero, Zero, Zero>>,
     <<SqrtHalf, Zero, Zero, SqrtHalf>>}

\* the arguments of imuSetAttitudeRPY, in degrees: a bank of 45 degrees
SimAngles == {<<Rat(45, 1), Zero, Zero>>}

\* at rest with the accelerometer along body z
SimInputs == {Sensors(TRUE, V3(0, 0, 10), VZero, <<0, 0, 0>>, NoMag, NoGps)}

\* ANGLE_MODE with a throttle correction of 100 over 90 degrees
InitSim ==
    \E cfg \in {c \in RuntimeConfigs : ~c.level_recovery} :
        InitOf(cfg, ConfiguredThrottle(900, 100), MountsLevel, {"ANGLE_MODE"})

TickSim ==
    /\ currentTimeUs + TickUs <= MaxTicksSim * TickUs
    /\ \E in \in SimInputs : imuUpdateAttitudeLocked(currentTimeUs + TickUs, in)

SetAttitudeQuatSim == \E a \in SimQuats : imuSetAttitudeQuat(a[1], a[2], a[3], a[4])

SetAttitudeRPYSim == \E a \in SimAngles : imuSetAttitudeRPY(a[1], a[2], a[3])

SetHasNewDataSim == imuSetHasNewData(TickUs)

NextSim ==
    \/ Arm
    \/ Disarm
    \/ TickSim
    \/ imuUpdateAttitudePublish
    \/ SetAttitudeQuatSim
    \/ SetAttitudeRPYSim
    \/ SetHasNewDataSim

SpecSim == InitSim /\ [][NextSim]_vars

(***************************************************************************)
(* The head-free offset runs: the single-threaded simulator build (IMU_LOCK*)
(* empty, USE_IMU_CALC), where imuSetAttitudeRPY sets the Euler angles     *)
(***************************************************************************)
\* banks of 44.9 and 45 degrees, pitches of -45 and 45.1 degrees
HeadAngles ==
    {<<Rat(449, 10), Zero, Zero>>, <<Rat(45, 1), Zero, Zero>>,
     <<Zero, Rat(-45, 1), Zero>>, <<Zero, Rat(451, 10), Zero>>}

\* at rest, or a quarter turn about body z within the tick
HeadInputs(dt) ==
    {Sensors(TRUE, V3(0, 0, 10), VZero, <<0, 0, 0>>, NoMag, NoGps),
     Sensors(TRUE, V3(0, 0, 10), <<Zero, Zero, QuarterTurnRate(dt)>>, <<0, 0, 0>>,
             NoMag, NoGps)}

TickHead ==
    /\ currentTimeUs + TickUs <= MaxTicksHead * TickUs
    /\ \E in \in HeadInputs(Rat(currentTimeUs + TickUs - previousIMUUpdateTime, 1000000)) :
           imuUpdateAttitude(currentTimeUs + TickUs, in)

SetAttitudeRPYHead == \E a \in HeadAngles : imuSetAttitudeRPY(a[1], a[2], a[3])

NextHead == TickHead \/ SetAttitudeRPYHead \/ HeadfreeOffsetSet

SpecHead == Init /\ [][NextHead]_vars

(***************************************************************************)
(* The derived-output runs: Euler angles, head-free and per-motor outputs  *)
(* under the flight modes, on a frame whose first motor is rolled by 90    *)
(* degrees                                                                 *)
(***************************************************************************)
OutModes ==
    {{}, {"ANGLE_MODE"}, {"HEADFREE_MODE"}, {"LYNCH_TRANSLATE"}, {"SET_LYNCH_MODE"}}

\* at rest; a quarter turn about body z, or about body x, within the tick
\* and without an accelerometer average
OutInputs(dt) ==
    {Sensors(TRUE, V3(0, 0, 10), VZero, <<0, 0, 0>>, NoMag, NoGps),
     Sensors(FALSE, VZero, <<Zero, Zero, QuarterTurnRate(dt)>>, <<0, 0, 0>>, NoMag, NoGps),
     Sensors(FALSE, VZero, <<QuarterTurnRate(dt), Zero, Zero>>, <<0, 0, 0>>, NoMag, NoGps)}

InitOut ==
    \E cfg \in {c \in RuntimeConfigs : ~c.level_recovery} :
        InitOf(cfg, ConfiguredThrottle(800, 0), MountsTilted, {})

TickOut ==
    /\ currentTimeUs + TickUs <= MaxTicksOut * TickUs
    /\ \E in \in OutInputs(Rat(currentTimeUs + TickUs - previousIMUUpdateTime, 1000000)) :
           imuUpdateAttitude(currentTimeUs + TickUs, in)

SetFlightModesOut == \E f \in OutModes \ {flightModeFlags} : SetFlightModes(f)

NextOut ==
    \/ TickOut
    \/ SetFlightModesOut
    \/ HeadfreeOffsetSet
    \/ imuQuaternionHeadfreeTransformVectorEarthToBody

SpecOut == InitOut /\ [][NextOut]_vars

(***************************************************************************)
(* The latch runs: the motor latch and the level reference under           *)
(* ANGLE_MODE, SET_LYNCH_MODE and the sticks, on the frame whose first     *)
(* motor is rolled by 90 degrees                                           *)
(***************************************************************************)
LatchModes ==
    {{}, {"ANGLE_MODE"}, {"SET_LYNCH_MODE"}, {"ANGLE_MODE", "SET_LYNCH_MODE"}}

\* sticks centred, roll at 0.1, pitch at -0.2
LatchSticks ==
    {[roll |-> Zero, pitch |-> Zero], [roll |-> Rat(1, 10), pitch |-> Zero],
     [roll |-> Zero, pitch |-> Rat(-1, 5)]}

\* a quarter turn about body z, or about body x, within the tick and
\* without an accelerometer average
LatchInputs(dt) ==
    {Sensors(FALSE, VZero, <<Zero, Zero, QuarterTurnRate(dt)>>, <<0, 0, 0>>, NoMag, NoGps),
     Sensors(FALSE, VZero, <<QuarterTurnRate(dt), Zero, Zero>>, <<0, 0, 0>>, NoMag, NoGps)}

TickLatch ==
    /\ currentTimeUs + TickUs <= MaxTicksLatch * TickUs
    /\ \E in \in LatchInputs(Rat(currentTimeUs + TickUs - previousIMUUpdateTime, 1000000)) :
           imuUpdateAttitude(currentTimeUs + TickUs, in)

SetFlightModesLatch == \E f \in LatchModes \ {flightModeFlags} : SetFlightModes(f)

SetRcDeflectionLatch == \E rc \in LatchSticks \ {rcDeflection} : SetRcDeflection(rc)

NextLatch == TickLatch \/ SetFlightModesLatch \/ SetRcDeflectionLatch

SpecLatch == InitOut /\ [][NextLatch]_vars

(***************************************************************************)
(* Properties                                                              *)
(***************************************************************************)
\* the gains of the scheduler for the configuration in force
BoostedKp == Mul(imuRuntimeConfig.dcm_kp, Rat(10, 1))
ResetKp == Rat(25, 1)

\* |a|^2 * acc_1G_reciprocal^2 of the accelerometer sample of the last tick
LastMagnitudeSq == AccMagnitudeSq(accAverage, Rat(1, Acc1G))

\* the strength as a function of m: 0 outside (0.5, 1.69), rising linearly
\* from 0 at 0.5 to 1 at 1.0, falling linearly from 1 at 1.0 to 0 at 1.69
PiecewiseStrength(m) ==
    IF Le(m, Half) \/ Ge(m, Rat(169, 100)) THEN Zero
    ELSE IF Le(m, One) THEN Div(Sub(m, Half), Half)
    ELSE Div(Sub(Rat(169, 100), m), Rat(69, 100))

\* C1: the accelerometer strength computed by a tick lies in [0, 1].
C1_StrengthInUnitInterval ==
    obs.ticked => (Ge(obs.useAcc, Zero) /\ Le(obs.useAcc, One))

\* C2: the accelerometer strength computed by a tick is the piecewise linear
\* function of m = |a|^2 * acc_1G_reciprocal^2: 0 for m <= 0.5 and for
\* m >= 1.69, rising from 0 at 0.5 to 1 at 1.0, falling from 1 at 1.0 to 0
\* at 1.69.
C2_StrengthPiecewiseLinear ==
    obs.ticked => obs.useAcc = PiecewiseStrength(LastMagnitudeSq)

\* C3, as amended: in a cycle started by a disarm at t0 and not disturbed
\* since, the gain is 10 * dcm_kp on every tick up to and including the
\* first tick T1 at or after t0 + 250 ms, 25 on every later tick before
\* T1 + 500 ms, and 10 * dcm_kp from the first tick at or after T1 + 500 ms
\* on, with attitudeResetCompleted set and both timers zero.
C3_DisarmResetCycle ==
    hist.cause = "disarm" =>
        /\ (hist.openTick = -1 \/ hist.openTick = currentTimeUs) =>
               obs.dcmKpGain = BoostedKp
        /\ (hist.openTick >= 0 /\ hist.openTick < currentTimeUs /\ hist.closeTick = -1) =>
               /\ obs.dcmKpGain = ResetKp
               /\ currentTimeUs < hist.openTick + ATTITUDE_RESET_ACTIVE_TIME
        /\ hist.closeTick >= 0 =>
               /\ obs.dcmKpGain = BoostedKp
               /\ attitudeResetCompleted
               /\ gyroQuietPeriodTimeEnd = 0
               /\ attitudeResetTimeEnd = 0

\* C3, as stated: in such a cycle the gain is 10 * dcm_kp on every tick
\* before t0 + 250 ms, 25 on the ticks of the following 500 ms, and
\* 10 * dcm_kp after that, with attitudeResetCompleted set and both timers
\* zero.
C3_AsStated ==
    hist.cause = "disarm" =>
        /\ currentTimeUs < hist.cycleStart + 250000 => obs.dcmKpGain = BoostedKp
        /\ (/\ currentTimeUs >= hist.cycleStart + 250000
            /\ currentTimeUs < hist.cycleStart + 750000) => obs.dcmKpGain = ResetKp
        /\ currentTimeUs >= hist.cycleStart + 750000 =>
               /\ obs.dcmKpGain = BoostedKp
               /\ attitudeResetCompleted
               /\ gyroQuietPeriodTimeEnd = 0
               /\ attitudeResetTimeEnd = 0

\* a cycle started by a disarm has run to its end on this tick
C3_Witness ==
    /\ hist.cause = "disarm"
    /\ hist.closeTick = currentTimeUs
    /\ attitudeResetCompleted

\* C4: a tick returns 25 only if it is a disarmed tick, a disarm and every
\* disturbance of a disarmed tick lie more than 250000 us back; and a
\* disturbance on a disarmed tick after a disarm restarts the quiet timer,
\* clears the reset-end timer and leaves no reset window open on that tick.
C4_ResetGainOnlyAfterQuiet ==
    /\ (obs.ticked /\ obs.dcmKpGain = ResetKp) =>
           /\ ~obs.armState
           /\ hist.disarmSeen
           /\ hist.cycleStart >= 0
           /\ currentTimeUs - hist.cycleStart > 250000
           /\ (hist.lastDisturb = -1 \/ currentTimeUs - hist.lastDisturb > 250000)
    /\ (hist.cause = "disturb" /\ hist.cycleStart = currentTimeUs) =>
           /\ gyroQuietPeriodTimeEnd = currentTimeUs + 250000
           /\ attitudeResetTimeEnd = 0
           /\ ~obs.attitudeResetActive
           /\ obs.dcmKpGain # ResetKp

\* a disturbance has closed an open reset window on this tick
C4_Witness ==
    /\ hist.cause = "disturb"
    /\ hist.cycleStart = currentTimeUs
    /\ hist.interrupted

\* C5: after a reset window has completed, and while nothing disturbs, no
\* window is open and both timers stay zero; a cycle started by a
\* disturbance at t waits until the first tick T1 at or after t + 250 ms,
\* has its window open on the later ticks before T1 + 500 ms, and completes
\* on the first tick at or after T1 + 500 ms.
C5_ReopenAfterDisturbance ==
    /\ hist.closeTick >= 0 =>
           /\ ~obs.attitudeResetActive
           /\ attitudeResetCompleted
           /\ gyroQuietPeriodTimeEnd = 0
           /\ attitudeResetTimeEnd = 0
    /\ hist.cause = "disturb" =>
           /\ hist.openTick = -1 =>
                  /\ gyroQuietPeriodTimeEnd = hist.cycleStart + 250000
                  /\ attitudeResetTimeEnd = 0
                  /\ ~obs.attitudeResetActive
           /\ hist.openTick = currentTimeUs =>
                  /\ attitudeResetTimeEnd = currentTimeUs + 500000
                  /\ ~obs.attitudeResetActive
           /\ (hist.openTick >= 0 /\ hist.openTick < currentTimeUs /\ hist.closeTick = -1) =>
                  /\ obs.attitudeResetActive
                  /\ obs.dcmKpGain = ResetKp
           /\ hist.closeTick = currentTimeUs => attitudeResetCompleted

\* a second reset window, opened after a disturbance, has completed
C5_Witness ==
    /\ hist.cause = "disturb"
    /\ hist.closeTick = currentTimeUs
    /\ hist.completions = 2

C7_LevelStrength ==
    /\ [](/\ levelRecoveryStrength \in 0..1000
          /\ ~levelRecoveryActive => levelRecoveryStrength = 0
          /\ (/\ levelRecoveryActive
              /\ 2 * (currentTimeUs - previousCrashTime)
                     <= imuRuntimeConfig.level_recovery_time * 1000) =>
                 levelRecoveryStrength = 1000)
    /\ [][(/\ levelRecoveryActive
           /\ levelRecoveryActive'
           /\ previousCrashTime' = previousCrashTime) =>
              levelRecoveryStrength' <= levelRecoveryStrength]_vars

\* the last tick of the window of a crash after boot
C7_Witness ==
    /\ levelRecoveryActive
    /\ previousCrashTime > 0
    /\ levelRecoveryStrength = 400

\* C8: with the gyro at rest, the yaw published by the tick that runs the
\* GPS heading initialisation and by the tick after it is the ground course
\* the initialisation was given.
C8_HeadingInitSetsYaw ==
    (hist.sinceInit \in {0, 1} /\ hist.stillSinceInit) => attitude.yaw = hist.initCourse

C10_ReferenceSelection ==
    obs.ticked =>
        /\ obs.magApplied <=>
               (CompassSelected(obs.in) /\ Gt(VNormSq(obs.in.magADC), Rat(1, 100)))
        /\ obs.useCOG <=>
               (~CompassSelected(obs.in) /\ GpsCourseValid(obs.in) /\ ~hist.firstCog)
        /\ ~(obs.magApplied /\ obs.useCOG)

\* C10, as stated: the magnetometer is usable exactly when the compass is
\* present, healthy, not disabled by GPS rescue and its vector has squared
\* norm above 0.01; the course over ground is used exactly when the
\* magnetometer is not usable in that sense and the GPS course is valid; the
\* two are never both in use.
C10_AsStated ==
    obs.ticked =>
        /\ obs.magApplied <=>
               (CompassSelected(obs.in) /\ Gt(VNormSq(obs.in.magADC), Rat(1, 100)))
        /\ obs.useCOG <=>
               (/\ ~(CompassSelected(obs.in) /\ Gt(VNormSq(obs.in.magADC), Rat(1, 100)))
                /\ GpsCourseValid(obs.in))
        /\ ~(obs.magApplied /\ obs.useCOG)

\* a healthy compass with a zero vector and a valid GPS course: neither
\* reference is in use
C10_Witness ==
    /\ obs.ticked
    /\ CompassSelected(obs.in)
    /\ obs.in.magADC = VZero
    /\ GpsCourseValid(obs.in)
    /\ ~obs.magApplied
    /\ ~obs.useCOG

\* C11: a tick changes the integral feedback only in two ways: with
\* dcm_ki = 0 it becomes (0, 0, 0); with dcm_ki > 0, a spin rate of the gyro
\* strictly below 20 deg/s and a non-zero accelerometer strength it grows by
\* dcm_ki * e * dt * useAcc.  In every other case (a spin rate of 20 deg/s or
\* more, or a strength of 0) it keeps its value, and it is never reset while
\* dcm_ki > 0.
C11_IntegratorUpdate ==
    [][(obs'.ticked /\ currentTimeUs' # currentTimeUs) =>
           integralFB' =
               IF imuRuntimeConfig.dcm_ki = Zero
               THEN VZero
               ELSE IF Lt(obs'.spinRateSq, Rat(20 * 20, 1)) /\ obs'.useAcc # Zero
               THEN VAdd(integralFB,
                         VScale(obs'.e,
                                Mul(Mul(imuRuntimeConfig.dcm_ki,
                                        Rat(currentTimeUs' - previousIMUUpdateTime, 1000000)),
                                    obs'.useAcc)))
               ELSE integralFB]_vars

\* a tick with dcm_ki > 0 below the limit, with a usable accelerometer and an
\* error, has left a non-zero integral feedback
C11_Witness ==
    /\ obs.ticked
    /\ Gt(imuRuntimeConfig.dcm_ki, Zero)
    /\ Lt(obs.spinRateSq, Rat(20 * 20, 1))
    /\ obs.spinRateSq # Zero
    /\ obs.useAcc # Zero
    /\ obs.e # VZero
    /\ integralFB # VZero

\* a non-zero integral feedback was kept at the limit and then set to zero
\* by a tick with dcm_ki = 0
C11_WitnessReset ==
    /\ obs.ticked
    /\ imuRuntimeConfig.dcm_ki = Zero
    /\ integralFB = VZero
    /\ obs.spinRateSq = Rat(20 * 20, 1)
    /\ obs.e # VZero

\* C20: with level recovery enabled, on every tick executed while disarmed
\* the level-recovery flag is false and the strength 0 when Kp is computed,
\* so the gain is the reset gain inside the reset window and the disarmed
\* boost outside it, never the level-recovery gain; and on no tick are the
\* reset window and the level recovery both active.
C20_NoLevelRecoveryDisarmed ==
    (obs.ticked /\ imuRuntimeConfig.level_recovery) =>
        /\ ~obs.armState =>
               /\ ~obs.lrActive
               /\ obs.lrStrength = 0
               /\ ~levelRecoveryActive
               /\ levelRecoveryStrength = 0
               /\ obs.dcmKpGain = IF obs.attitudeResetActive THEN ResetKp ELSE BoostedKp
        /\ ~(obs.attitudeResetActive /\ obs.lrActive)

\* a disarmed tick inside the reset window on which the gyro reads a crash
C20_Witness ==
    /\ obs.ticked
    /\ imuRuntimeConfig.level_recovery
    /\ ~obs.armState
    /\ obs.attitudeResetActive
    /\ previousCrashTime = currentTimeUs
    /\ obs.dcmKpGain = ResetKp

\* C13: no simulator setter falls between a tick's first access to the
\* shared state and its publication of the throttle-angle correction: the
\* correction a tick hands to the mixer is computed from the rotation matrix
\* that the same tick produced.
C13_PublishedFromTickMatrix ==
    [][(pc = "unlocked" /\ pc' = "idle") =>
           throttleAngleCorrection' =
               ThrottleAngleCorrection(throttle, flightModeFlags, armed, obs.rMat)]_vars

\* C15: the orientation quaternion q has unit norm after every operation
\* that writes it: after every Mahony tick, after the GPS heading
\* initialisation and after imuSetAttitudeQuat(w, x, y, z) for every
\* argument tuple.
C15_UnitNorm == NormSq(q) = One

\* C12: a call of imuUpdateAttitude without an accelerometer (absent, or
\* without a first sample) only zeroes acc.accADC: q, the rotation matrix,
\* the Euler angles, the per-motor arrays, the integral feedback, the
\* attitude-reset timers, the level-recovery state and the timestamp of the
\* previous update keep their values, and nothing is given to the mixer (no
\* step of a tick is executed and the mixer keeps the value it had).
C12_MissingAccelerometer ==
    [][obs'.zeroed # <<>> /\ currentTimeUs' # currentTimeUs =>
           /\ accADC' = <<0, 0, 0>>
           /\ UNCHANGED <<q, qP, rMat, attitude, attitudeIsEstablished, accAverage, motor,
                          level, integralFB, lastArmState, gyroQuietPeriodTimeEnd,
                          attitudeResetTimeEnd, attitudeResetCompleted, previousCrashTime,
                          levelRecoveryActive, levelRecoveryStrength, initialized,
                          previousIMUUpdateTime, throttleAngleCorrection, headfree,
                          offset>>
           /\ obs'.steps = obs.steps]_vars

\* a call without an accelerometer has zeroed a sample of 1 g, after a tick
\* that left a non-zero integral feedback
C12_Witness ==
    /\ obs.zeroed = <<0, 0, Acc1G>>
    /\ accADC = <<0, 0, 0>>
    /\ integralFB # VZero
    /\ previousIMUUpdateTime > 0
    /\ previousIMUUpdateTime < currentTimeUs

\* C16: imuQuaternionHeadfreeOffsetSet returns true and rewrites offset to
\* (cos(yaw/2), 0, 0, sin(yaw/2)), yaw the heading of the orientation,
\* exactly when |attitude.roll| < 450 and |attitude.pitch| < 450
\* decidegrees; otherwise, a bank of exactly 450 on either axis included, it
\* returns false and leaves offset as it is.  In both cases q, the rotation
\* matrix and the Euler angles keep their values.
C16_HeadfreeOffsetSet ==
    [][(offsetSetReturned' # offsetSetReturned \/ offset' # offset) =>
           /\ offsetSetReturned' =
                  IF Abs(attitude.roll) < 450 /\ Abs(attitude.pitch) < 450
                  THEN "true" ELSE "false"
           /\ offset' =
                  IF Abs(attitude.roll) < 450 /\ Abs(attitude.pitch) < 450
                  THEN <<CosHalfDecideg(MinusAtan2Decideg(rMat[2][1], rMat[1][1])),
                         Zero, Zero,
                         SinHalfDecideg(MinusAtan2Decideg(rMat[2][1], rMat[1][1]))>>
                  ELSE offset
           /\ UNCHANGED <<q, qP, rMat, attitude>>]_vars

\* at a bank of 44.9 degrees the call returned true and wrote an offset
\* other than the initial one
C16_Witness ==
    /\ offsetSetReturned = "true"
    /\ Abs(attitude.roll) = 449
    /\ offset # QUATERNION_INITIALIZE

\* at a bank of exactly 45 degrees the call returned false with a heading
\* that would have changed the offset
C16_WitnessRefused ==
    /\ offsetSetReturned = "false"
    /\ attitude.roll = 450
    /\ offset = QUATERNION_INITIALIZE
    /\ q # QUATERNION_INITIALIZE

\* the per-motor outputs computed from the translated quaternions qTM
OutputsOf(mot) ==
    [thrust |-> [i \in Motors |-> ThrustOf(mot.qTM[i])],
     pitch |-> [i \in Motors |-> PitchOf(mot.qTM[i])],
     roll |-> [i \in Motors |-> RollOf(mot.qTM[i])]]

\* the per-motor outputs as stored
Outputs(mot) == [thrust |-> mot.thrust, pitch |-> mot.pitch, roll |-> mot.roll]

\* C17: the thrust, pitch and roll of every motor are overwritten from that
\* tick's qTM on a tick where ANGLE_MODE, LYNCH_TRANSLATE or SET_LYNCH_MODE
\* is active, and keep their previous values on a tick where none of the
\* three is active.
C17_MotorOutputs ==
    [][(obs'.ticked /\ currentTimeUs' # currentTimeUs) =>
           Outputs(motor') =
               IF flightModeFlags \cap {"ANGLE_MODE", "LYNCH_TRANSLATE", "SET_LYNCH_MODE"} # {}
               THEN OutputsOf(motor')
               ELSE Outputs(motor)]_vars

\* C17 as stated: the outputs keep their previous values on a tick where
\* neither ANGLE_MODE nor LYNCH_TRANSLATE is active, and are overwritten
\* from that tick's qTM when either is active.
C17_AsStated ==
    [][(obs'.ticked /\ currentTimeUs' # currentTimeUs) =>
           Outputs(motor') =
               IF flightModeFlags \cap {"ANGLE_MODE", "LYNCH_TRANSLATE"} # {}
               THEN OutputsOf(motor')
               ELSE Outputs(motor)]_vars

\* after a tick in SET_LYNCH_MODE alone the outputs are those of qTM: no
\* thrust and a roll of 90 degrees for the rolled motor, full thrust for the
\* second motor
C17_Witness ==
    /\ obs.ticked
    /\ flightModeFlags = {"SET_LYNCH_MODE"}
    /\ Outputs(motor) = OutputsOf(motor)
    /\ motor.thrust[1] = Zero
    /\ motor.roll[1] = 900
    /\ motor.thrust[2] = One

\* after a tick without any of the modes the thrust of the second motor is
\* still the boot value although qTM gives full thrust
C17_WitnessKept ==
    /\ obs.ticked
    /\ flightModeFlags = {}
    /\ motor.thrust[2] = Zero
    /\ ThrustOf(motor.qTM[2]) = One

\* C18: after every executed tick the head-free quaternion is the product
\* offset * q of the head-free offset and the orientation of that tick, and
\* in HEADFREE_MODE the Euler angles of that tick are those of this product.
C18_HeadfreeCurrent ==
    [][(obs'.ticked /\ currentTimeUs' # currentTimeUs) =>
           /\ headfree' = imuQuaternionMultiplication(offset', q')
           /\ "HEADFREE_MODE" \in flightModeFlags =>
                  attitude' = imuUpdateEulerAngles(
                                  q', rMat', imuQuaternionMultiplication(offset', q'),
                                  flightModeFlags, rcDeflection, motor, level).attitude]_vars

\* a tick in HEADFREE_MODE has turned q by a quarter turn about z while
\* headfree and the yaw read from it are those of boot
C18_StaleHeadfree ==
    /\ obs.ticked
    /\ "HEADFREE_MODE" \in flightModeFlags
    /\ q = <<Num(0, 1, 2), Zero, Zero, Num(0, 1, 2)>>
    /\ offset = QUATERNION_INITIALIZE
    /\ headfree = QUATERNION_INITIALIZE
    /\ attitude.yaw = 0

\* C19: after every executed tick, in head-free and in normal mode, the
\* published yaw is an integer from 0 to 3599 decidegrees.
C19_YawRange == obs.ticked => attitude.yaw \in 0..3599

\* a tick in HEADFREE_MODE has published a yaw whose computed value, -900,
\* was negative; the yaw of normal mode would be another one
C19_Witness ==
    /\ obs.ticked
    /\ "HEADFREE_MODE" \in flightModeFlags
    /\ EulerRaw(flightModeFlags, headfree, rMat).yaw = -900
    /\ EulerFromMatrix(rMat).yaw = 1800
    /\ attitude.yaw = 2700

\* the same in normal mode
C19_WitnessNormal ==
    /\ obs.ticked
    /\ flightModeFlags = {}
    /\ EulerRaw(flightModeFlags, headfree, rMat).yaw = -900
    /\ attitude.yaw = 2700

\* the steps of a tick
StepNames ==
    {"deltaT", "useMag", "gpsUsable", "gpsHeadingInit", "gyroAverage", "accAverage",
     "useAcc", "levelRecovery", "kpGain", "mahony", "eulerAngles", "publish"}

\* the objects a step of the tick reads (imu.c 840-904, 940-945, and the
\* functions called there)
StepReads(step) ==
    CASE step = "deltaT" -> {"currentTimeUs", "previousIMUUpdateTime"}
      [] step = "useMag" -> {"mag"}
      [] step = "gpsUsable" -> {"useMag", "gps"}
      [] step = "gpsHeadingInit" -> {"useCOG", "initialized", "attitude", "gps", "q"}
      [] step = "gyroAverage" -> {"gyro"}
      [] step = "accAverage" -> {"acc"}
      [] step = "useAcc" -> {"accAverage"}
      [] step = "levelRecovery" ->
             {"gyro", "currentTimeUs", "previousCrashTime", "armed", "imuRuntimeConfig"}
      [] step = "kpGain" ->
             {"currentTimeUs", "useAcc", "gyroAverage", "armed", "lastArmState",
              "gyroQuietPeriodTimeEnd", "attitudeResetTimeEnd", "attitudeResetCompleted",
              "levelRecoveryActive", "levelRecoveryStrength", "imuRuntimeConfig"}
      [] step = "mahony" ->
             {"deltaT", "gyroAverage", "useAcc", "accAverage", "useMag", "useCOG",
              "courseOverGround", "dcmKpGain", "mag", "rMat", "integralFB", "q",
              "imuRuntimeConfig"}
      [] step = "eulerAngles" ->
             {"q", "rMat", "headfree", "flightModeFlags", "rcDeflection", "motor", "level"}
      [] step = "publish" -> {"throttle", "flightModeFlags", "armed", "rMat"}

\* the objects a step of the tick writes
StepWrites(step) ==
    CASE step = "deltaT" -> {"deltaT", "previousIMUUpdateTime"}
      [] step = "useMag" -> {"useMag"}
      [] step = "gpsUsable" -> {"useCOG", "courseOverGround"}
      [] step = "gpsHeadingInit" ->
             {"initialized", "qP", "rMat", "attitudeIsEstablished", "useCOG"}
      [] step = "gyroAverage" -> {"gyroAverage"}
      [] step = "accAverage" -> {"accAverage"}
      [] step = "useAcc" -> {"useAcc"}
      [] step = "levelRecovery" ->
             {"previousCrashTime", "levelRecoveryActive", "levelRecoveryStrength"}
      [] step = "kpGain" ->
             {"dcmKpGain", "lastArmState", "gyroQuietPeriodTimeEnd",
              "attitudeResetTimeEnd", "attitudeResetCompleted"}
      [] step = "mahony" -> {"integralFB", "q", "qP", "rMat", "attitudeIsEstablished"}
      [] step = "eulerAngles" -> {"attitude", "motor", "level"}
      [] step = "publish" -> {"throttleAngleCorrection"}

\* the objects that a step of the sequence reads and a later step writes
ReadBeforeWritten(steps) ==
    UNION {StepReads(steps[i]) \cap StepWrites(steps[j]) :
               <<i, j>> \in {p \in (DOMAIN steps) \X (DOMAIN steps) : p[1] < p[2]}}

\* the steps of the sequence follow each other in non-decreasing phase
InPhaseOrder(steps, phase) ==
    \A i, j \in DOMAIN steps : i < j => phase[steps[i]] <= phase[steps[j]]

\* the phases as the code runs them: magnetometer and GPS course usability
\* (with the GPS heading initialisation), sensor averages, accelerometer
\* strength, level recovery, Kp and Mahony, Euler angles and motor outputs,
\* publication
PhaseInCode ==
    [step \in StepNames |->
        CASE step = "deltaT" -> 0
          [] step \in {"useMag", "gpsUsable", "gpsHeadingInit"} -> 1
          [] step \in {"gyroAverage", "accAverage"} -> 2
          [] step = "useAcc" -> 3
          [] step = "levelRecovery" -> 4
          [] step \in {"kpGain", "mahony"} -> 5
          [] step = "eulerAngles" -> 6
          [] step = "publish" -> 7]

\* the phases (a) to (f): sensor averages, reference sources, level
\* recovery, Kp and Mahony, Euler angles and motor outputs, publication
PhaseAsStated ==
    [step \in StepNames |->
        CASE step = "deltaT" -> 0
          [] step \in {"gyroAverage", "accAverage"} -> 1
          [] step \in {"useAcc", "useMag", "gpsUsable", "gpsHeadingInit"} -> 2
          [] step = "levelRecovery" -> 3
          [] step \in {"kpGain", "mahony"} -> 4
          [] step = "eulerAngles" -> 5
          [] step = "publish" -> 6]

\* the steps every published tick runs
AlwaysRun ==
    {"useMag", "gpsUsable", "gyroAverage", "accAverage", "kpGain", "mahony",
     "eulerAngles", "publish"}

C21_OnlyAfterArmedCrash ==
    (obs.ticked /\ levelRecoveryActive) =>
        /\ hist.armedCrash >= 0
        /\ currentTimeUs - hist.armedCrash < imuRuntimeConfig.level_recovery_time * 1000

\* the level recovery is active after a tick executed while armed although
\* the gyro has been at rest on every tick: previousCrashTime is the boot
\* value 0 and the clock is still inside the recovery window
C21_ActiveWithoutCrash ==
    /\ obs.ticked
    /\ armed
    /\ levelRecoveryActive
    /\ previousCrashTime = 0
    /\ hist.armedCrash = -1

\* the level recovery is active after a tick executed while armed although
\* the only gyro reading beyond the threshold came while disarmed
C21_ActiveAfterDisarmedCrash ==
    /\ obs.ticked
    /\ armed
    /\ levelRecoveryActive
    /\ previousCrashTime > 0
    /\ hist.armedCrash = -1

\* C22: on each tick qM[i] and qLM[i] are rewritten to q * qPM[i] for all
\* six motors when SET_LYNCH_MODE is active, or ANGLE_MODE is active and was
\* not active on the previous derive step, or it is the first derive step
\* since boot, and are unchanged for all six motors on every other tick;
\* qTM[i] is recomputed from qLM[i] and the thrust translation on every tick.
C22_MotorLatch ==
    [][(obs'.ticked /\ currentTimeUs' # currentTimeUs) =>
           /\ IF \/ "SET_LYNCH_MODE" \in flightModeFlags
                 \/ ("ANGLE_MODE" \in flightModeFlags /\ ~hist.angleAtLast)
                 \/ ~hist.derived
              THEN \A i \in Motors :
                       /\ motor'.qM[i] = imuQuaternionMultiplicationProd(q', motor.qPM[i], 1)
                       /\ motor'.qLM[i] = motor'.qM[i]
              ELSE motor'.qM = motor.qM /\ motor'.qLM = motor.qLM
           /\ motor'.qPM = motor.qPM
           /\ \A i \in Motors :
                  motor'.qTM[i] = imuQuaternionMultiplicationProd(
                                      motor'.qLM[i], motor'.qPThrustTranslation, 1)]_vars

\* a second tick in ANGLE_MODE has turned q and left the latch of the
\* rolled motor and of the second motor where the first tick put them
C22_Witness ==
    /\ obs.ticked
    /\ hist.angleAtLast
    /\ flightModeFlags = {"ANGLE_MODE"}
    /\ motor.changedToAngle = 1
    /\ motor.qLM[1] # imuQuaternionMultiplicationProd(q, motor.qPM[1], 1)
    /\ motor.qLM[2] # imuQuaternionMultiplicationProd(q, motor.qPM[2], 1)
    /\ motor.qLM[2] # QUATERNION_INITIALIZE

\* a tick on entry to ANGLE_MODE, after ticks without it, has latched the
\* turned orientation
C22_WitnessEntry ==
    /\ obs.ticked
    /\ currentTimeUs = 2 * TickUs
    /\ hist.angleAtLast
    /\ q # QUATERNION_INITIALIZE
    /\ motor.qLM[2] = q
    /\ motor.qLM[1] = imuQuaternionMultiplicationProd(q, motor.qPM[1], 1)
    /\ motor.qLM[1] # q

\* the roll or the pitch stick is deflected by more than 0.1
SticksDeflected ==
    Gt(FAbs(rcDeflection.roll), Rat(1, 10)) \/ Gt(FAbs(rcDeflection.pitch), Rat(1, 10))

\* the conjugate of the orientation quat with the yaw removed, as a product
\* cache written over the cache quatProd
CapturedReference(quatProd, quat, yaw) ==
    imuComputeRemoveYaw(
        imuQuaternionComputeProductsProducts(
            [quatProd EXCEPT !.w = quat[1], !.x = Neg(quat[2]),
                             !.y = Neg(quat[3]), !.z = Neg(quat[4])]),
        yaw)

\* C23: on each tick the reference qPA is captured from the conjugate of the
\* orientation of that tick, with the yaw removed, when ANGLE_MODE is active
\* and either it was not active on the previous derive step or
\* SET_LYNCH_MODE is active with a roll or pitch stick deflection above 0.1
\* in magnitude; on every other tick, a tick in SET_LYNCH_MODE without
\* ANGLE_MODE included, qPA is unchanged.
C23_ReferenceCapture ==
    [][(obs'.ticked /\ currentTimeUs' # currentTimeUs) =>
           level'.qPA =
               IF /\ "ANGLE_MODE" \in flightModeFlags
                  /\ \/ ~hist.angleAtLast
                     \/ ("SET_LYNCH_MODE" \in flightModeFlags /\ SticksDeflected)
               THEN CapturedReference(level.qPA, q',
                                      EulerRaw(flightModeFlags, headfree, rMat').yaw)
               ELSE level.qPA]_vars

\* C23 as stated: qPA is captured exactly when ANGLE_MODE is active and was
\* not active on the previous tick, or SET_LYNCH_MODE is active with a roll
\* or pitch stick deflection above 0.1 in magnitude (w, x, y, z of qPA).
C23_AsStated ==
    [][(obs'.ticked /\ currentTimeUs' # currentTimeUs) =>
           Quat(level'.qPA) =
               IF \/ ("ANGLE_MODE" \in flightModeFlags /\ ~hist.angleAtLast)
                  \/ ("SET_LYNCH_MODE" \in flightModeFlags /\ SticksDeflected)
               THEN Quat(CapturedReference(level.qPA, q',
                                           EulerRaw(flightModeFlags, headfree, rMat').yaw))
               ELSE Quat(level.qPA)]_vars

\* the third tick has re-entered ANGLE_MODE without SET_LYNCH_MODE and
\* captured the reference a second time, from an orientation that is
\* not level
C23_Witness ==
    /\ obs.ticked
    /\ currentTimeUs = 3 * TickUs
    /\ flightModeFlags = {"ANGLE_MODE"}
    /\ hist.angleAtLast
    /\ hist.captures = 2
    /\ Quat(level.qPA) # QUATERNION_INITIALIZE
    /\ level.qA = QUATERNION_INITIALIZE

\* three ticks of one ANGLE_MODE period without SET_LYNCH_MODE have
\* captured the reference once, and q has left it since
C23_WitnessOnce ==
    /\ obs.ticked
    /\ currentTimeUs = 3 * TickUs
    /\ flightModeFlags = {"ANGLE_MODE"}
    /\ hist.captures = 1
    /\ level.inAngleMode = 1
    /\ level.qA # QUATERNION_INITIALIZE

\* a tick in ANGLE_MODE and SET_LYNCH_MODE with the pitch stick at -0.2 has
\* captured again
C23_WitnessSticks ==
    /\ obs.ticked
    /\ flightModeFlags = {"ANGLE_MODE", "SET_LYNCH_MODE"}
    /\ rcDeflection.pitch = Rat(-1, 5)
    /\ hist.captures = 3

\* the ten products of the cache are those of the components w, x, y, z
ProductsConsistent(quatProd, quat) ==
    quatProd = imuQuaternionComputeProducts(quat, quatProd)

\* C24: the ten products of qP are those of q, and the ten products of each
\* qPM[i], of qPA and of qPThrustTranslation are those of the cache's own
\* w, x, y, z, after configuration and after every tick.
C24_ProductsConsistent ==
    /\ ProductsConsistent(qP, q)
    /\ \A i \in Motors : ProductsConsistent(motor.qPM[i], Quat(motor.qPM[i]))
    /\ ProductsConsistent(level.qPA, Quat(level.qPA))
    /\ ProductsConsistent(motor.qPThrustTranslation, Quat(motor.qPThrustTranslation))

\* after configuration the cache of the motor rolled by 90 degrees holds
\* w = x = sqrt(1/2) and wx = 1/2 with the boot values ww = 1 and xx = 0
C24_StaleMotorProducts ==
    /\ Quat(motor.qPM[1]) = <<SqrtHalf, SqrtHalf, Zero, Zero>>
    /\ motor.qPM[1].wx = Half
    /\ motor.qPM[1].ww = One
    /\ motor.qPM[1].xx = Zero

\* after a capture of the level reference with a yaw removed, the squares
\* of qPA are not those of its w, x, y, z, while those of qP are those of q
C24_StaleReferenceProducts ==
    /\ obs.ticked
    /\ hist.captures >= 1
    /\ ProductsConsistent(qP, q)
    /\ level.qPA.wx = Mul(level.qPA.w, level.qPA.x)
    /\ \/ level.qPA.ww # Mul(level.qPA.w, level.qPA.w)
       \/ level.qPA.zz # Mul(level.qPA.z, level.qPA.z)
====
